---- MODULE Spec2Model ----
(***************************************************************************)
(* CC-Switch proxy core: ProviderRouter (provider selection, URL choice,   *)
(* key round-robin, suspect / cooldown marks, test override) and           *)
(* RequestForwarder (single-provider branch, tier walk, breaker permits,   *)
(* LastRequestSummary persistence), modelled from                          *)
(*   src/src-tauri/src/proxy/provider_router.rs                            *)
(*   src/src-tauri/src/proxy/forwarder.rs                                  *)
(* The CircuitBreaker itself (proxy/circuit_breaker.rs) and two router     *)
(* methods the forwarder calls (has_active_test_override,                  *)
(* maybe_record_startup_test_from_forwarder) are not part of the source    *)
(* tree; they are modelled from the written specification (sections 4.9    *)
(* and 4.10).                                                              *)
(***************************************************************************)
EXTENDS Integers, Sequences, FiniteSets, TLC

VARIABLES
    now,            \* std::time::Instant::now(), in seconds
    store,          \* Store: failover switch, queue, current provider
    breaker,        \* circuit_breakers: provider id -> breaker state
    rr,             \* round_robin_counters: <<app, tier>> -> usize
    activeLevel,    \* active_priority_level: app -> tier
    tested,         \* priority_level_tested: set of supplier keys
    urlLat,         \* url_latencies: <<app,tier,supplier,url>> -> latency_ms
    cooldown,       \* supplier_cooldowns: supplier key -> not-before instant
    suspect,        \* suspect_urls: <<app,supplier,url>> -> not-before instant
    currentUrl,     \* supplier_current_url: supplier key -> url
    testOverride,   \* test_override: Option<TestOverride>
    testResults,    \* test_results: run_id -> chosen_kind
    persisted,      \* Store settings last_request_summary_<app>
    req,            \* inbound request tasks (handler + forward_with_retry)
    bench,          \* tasks running a URL benchmark
    benchLock,      \* supplier_benchmark_locks: supplier key -> holder
    status,         \* ProxyStatus.last_requests: app -> LastRequestSummary
    stats,          \* ProxyStatus request counters and success_rate
    wb,             \* spawned writeback_provider_env tasks
    san,            \* a caller of sanitize_gpt_model_name: input and results
    env,            \* provider env CC_SWITCH_CODEX_MODEL_ALIASES (alias map)
    modelCache,     \* MODEL_LIST_CACHE entry of the provider's base URL
    call,           \* the last resolve_openai_model_in_body call
    hist            \* history of the last router / forwarder operation

vars == <<now, store, breaker, rr, activeLevel, tested, urlLat, cooldown,
          suspect, currentUrl, testOverride, testResults, persisted, req,
          bench, benchLock, status, stats, wb, san, env, modelCache, call,
          hist>>

resolverVars == <<san, env, modelCache, call>>

\* the state of the router and of the forwarder
proxyVars ==
    <<now, store, breaker, rr, activeLevel, tested, urlLat, cooldown, suspect,
      currentUrl, testOverride, testResults, persisted, req, bench, benchLock,
      status, stats, wb, hist>>

(***************************************************************************)
(* Bounds of the model.                                                    *)
(***************************************************************************)
MaxTime == 40           \* the clock stops advancing at this instant
MaxSelects == 3         \* select_providers calls per app in the router runs
MaxCalls == 3           \* allow / record calls in the router runs
MaxRequests == 2        \* inbound requests in the forwarder runs
MaxOverrides == 1       \* set_test_override calls in the forwarder runs
MaxBenchmarks == 3      \* URL benchmark runs in the benchmark runs
MaxUrlSelects == 2      \* select_providers calls in the URL runs
MaxUrlCalls == 1        \* record_result calls in the URL runs
MaxUrlTime == 20        \* the clock of the URL runs stops at this instant
MaxAliasKey == 67       \* distinct alias keys a provider env may hold
MaxWritebacks == 2      \* alias writebacks to one provider
MaxResolves == 2        \* resolver calls in the resolver runs
MaxResTime == 21601    \* the clock of the resolver runs stops here
MaxTokens == 3          \* '-'-separated tokens after the prefix of a model id

(***************************************************************************)
(* Program constants.                                                      *)
(***************************************************************************)
None == "none"
NoIndex == -1                       \* Option::None of sort_index
MISSING_SORT_INDEX == 999999        \* sort_index.unwrap_or(999999)
CONNECTIVITY_PENALTY_MS == 30000
U64_MAX == 2147483647               \* stands for u64::MAX ("not usable")
SUSPECT_SECONDS == 60
COOLDOWN_SECONDS == 20
ALIAS_CAP == 64                     \* entries merge_alias_map keeps

Apps == {"claude", "codex"}

(***************************************************************************)
(* The providers the Store holds.  name is the provider name split at '-'; *)
(* cfg holds the settings_config fields the router reads.                  *)
(***************************************************************************)
NoCfg ==
    [ANTHROPIC_BASE_URL |-> None, ANTHROPIC_API_KEY |-> None,
     ANTHROPIC_AUTH_TOKEN |-> None, base_url |-> None,
     OPENAI_API_KEY |-> None, baseUrlPriority |-> <<>>]

ClaudeCfg(url, key) ==
    [NoCfg EXCEPT !.ANTHROPIC_BASE_URL = url, !.ANTHROPIC_API_KEY = key]

CodexCfg(url, key) ==
    [NoCfg EXCEPT !.base_url = url, !.OPENAI_API_KEY = key]

ProviderIds == {"a", "b", "c", "d", "e", "f", "g", "x"}

Providers ==
    [a |-> [app |-> "claude", name |-> <<"anyrouter", "key", "a">>,
            sort_index |-> 1, cfg |-> ClaudeCfg("https://anyrouter.top", "K1")],
     b |-> [app |-> "claude", name |-> <<"anyrouter", "key", "b">>,
            sort_index |-> 1, cfg |-> ClaudeCfg("https://anyrouter.top", "K2")],
     c |-> [app |-> "claude", name |-> <<"openrouter", "key", "c">>,
            sort_index |-> 2, cfg |-> ClaudeCfg("U2", "K3")],
     d |-> [app |-> "claude", name |-> <<"anyrouter", "key", "d">>,
            sort_index |-> 1, cfg |-> ClaudeCfg("U3", "K1")],
     e |-> [app |-> "claude", name |-> <<"solo">>,
            sort_index |-> NoIndex,
            cfg |-> [NoCfg EXCEPT !.ANTHROPIC_BASE_URL = "U4",
                                  !.ANTHROPIC_AUTH_TOKEN = "K5"]],
     f |-> [app |-> "claude", name |-> <<"anyrouter", "key", "f">>,
            sort_index |-> 1, cfg |-> ClaudeCfg("https://anyrouter.top", "K4")],
     g |-> [app |-> "claude", name |-> <<"anyrouter", "key", "g">>,
            sort_index |-> 1, cfg |-> ClaudeCfg("https://anyrouter.top", "K1")],
     x |-> [app |-> "codex", name |-> <<"wong", "key", "x">>,
            sort_index |-> 1, cfg |-> CodexCfg("U5", "K6")]]

\* the order in which the Store returns provider rows
StoreOrder == <<"f", "a", "b", "c", "d", "e", "g", "x">>

\* a.id.cmp(&b.id) on the ids above
IdRank == [a |-> 1, b |-> 2, c |-> 3, d |-> 4, e |-> 5, f |-> 6, g |-> 7, x |-> 8]

supplier_name(p) == Head(Providers[p].name)

extract_base_url(p, app) ==
    CASE app = "claude" -> Providers[p].cfg.ANTHROPIC_BASE_URL
      [] app = "codex"  -> Providers[p].cfg.base_url
      [] OTHER          -> None

extract_api_key_value(p, app) ==
    CASE app = "claude" ->
            IF Providers[p].cfg.ANTHROPIC_API_KEY # None
            THEN Providers[p].cfg.ANTHROPIC_API_KEY
            ELSE Providers[p].cfg.ANTHROPIC_AUTH_TOKEN
      [] app = "codex"  -> Providers[p].cfg.OPENAI_API_KEY
      [] OTHER          -> None

SortIndexOrDefault(p) ==
    IF Providers[p].sort_index = NoIndex
    THEN MISSING_SORT_INDEX ELSE Providers[p].sort_index

default_url_priority_for_supplier(sup) ==
    IF sup = "anyrouter" THEN <<"https://anyrouter.top">> ELSE <<>>

Tiers == {SortIndexOrDefault(p) : p \in ProviderIds}

supplier_key(app, tier, sup) == <<app, tier, sup>>
url_latency_key(app, tier, sup, url) == <<app, tier, sup, url>>
suspect_key(app, sup, url) == <<app, sup, url>>

SupplierKeys ==
    {supplier_key(Providers[p].app, SortIndexOrDefault(p), supplier_name(p)) :
        p \in ProviderIds}
SuspectKeys ==
    {suspect_key(Providers[p].app, supplier_name(p),
                 extract_base_url(p, Providers[p].app)) : p \in ProviderIds}
LatKeys ==
    {url_latency_key(Providers[p].app, SortIndexOrDefault(p), supplier_name(p),
                     extract_base_url(p, Providers[p].app)) : p \in ProviderIds}
RRKeys == Apps \X Tiers

(***************************************************************************)
(* CircuitBreaker (specification section 4.9).                             *)
(***************************************************************************)
FailureThreshold == 1
SuccessThreshold == 2
TimeoutSeconds == 20
HalfOpenBudget == 1

BreakerNew ==
    [state |-> "Closed", until |-> 0, permits |-> 0, fails |-> 0, succs |-> 0]

\* consecutive_failures is read only while Closed and Closed is entered with
\* the counters reset, so the counters are cleared when the breaker opens
OpenAt(b, t) ==
    [b EXCEPT !.state = "Open", !.until = t + TimeoutSeconds,
              !.permits = 0, !.succs = 0, !.fails = 0]

\* read-only: true iff allow_request would currently succeed
is_available(b, t) ==
    CASE b.state = "Closed"   -> TRUE
      [] b.state = "Open"     -> t >= b.until
      [] b.state = "HalfOpen" -> b.permits < HalfOpenBudget

\* AllowResult {allowed, used_half_open_permit} and the breaker afterwards
allow_request(b, t) ==
    CASE b.state = "Closed" ->
            [allowed |-> TRUE, used_half_open_permit |-> FALSE, brk |-> b]
      [] b.state = "Open" ->
            IF t >= b.until
            THEN [allowed |-> TRUE, used_half_open_permit |-> TRUE,
                  brk |-> [b EXCEPT !.state = "HalfOpen", !.until = 0,
                                    !.permits = 1, !.succs = 0]]
            ELSE [allowed |-> FALSE, used_half_open_permit |-> FALSE, brk |-> b]
      [] b.state = "HalfOpen" ->
            IF b.permits < HalfOpenBudget
            THEN [allowed |-> TRUE, used_half_open_permit |-> TRUE,
                  brk |-> [b EXCEPT !.permits = @ + 1]]
            ELSE [allowed |-> FALSE, used_half_open_permit |-> FALSE, brk |-> b]

ReleasePermit(b, used) ==
    IF used /\ b.state = "HalfOpen" /\ b.permits > 0
    THEN [b EXCEPT !.permits = @ - 1] ELSE b

record_success(b0, used, t) ==
    LET b == [ReleasePermit(b0, used) EXCEPT !.fails = 0] IN
    IF b.state = "HalfOpen"
    THEN IF b.succs + 1 >= SuccessThreshold
         THEN BreakerNew
         ELSE [b EXCEPT !.succs = @ + 1]
    ELSE b

record_failure(b0, used, t) ==
    LET b  == ReleasePermit(b0, used)
        f  == IF b.fails + 1 >= FailureThreshold
              THEN FailureThreshold ELSE b.fails + 1
    IN  CASE b.state = "Closed" ->
                IF f >= FailureThreshold
                THEN OpenAt([b EXCEPT !.fails = f], t)
                ELSE [b EXCEPT !.fails = f]
          [] b.state = "HalfOpen" -> OpenAt([b EXCEPT !.fails = f], t)
          [] OTHER -> b

(***************************************************************************)
(* Store contract (section 6) on the provider table.                       *)
(***************************************************************************)
RECURSIVE FilterSeq(_, _)
FilterSeq(s, keep) ==
    IF s = <<>> THEN <<>>
    ELSE IF Head(s) \in keep THEN <<Head(s)>> \o FilterSeq(Tail(s), keep)
         ELSE FilterSeq(Tail(s), keep)

SeqToSet(s) == {s[i] : i \in 1..Len(s)}

\* get_current_provider(app) followed by get_provider_by_id
get_current_provider(st, app) == st.current[app]
get_provider_by_id(id, app) ==
    IF id \in ProviderIds /\ Providers[id].app = app THEN id ELSE None

\* the queue with the app's current provider put in front
failover_providers_current_first(st, app) ==
    LET cu == IF get_current_provider(st, app) = None THEN None
              ELSE get_provider_by_id(get_current_provider(st, app), app)
        q  == FilterSeq(StoreOrder, {p \in st.queue : Providers[p].app = app} \ {cu})
    IN  IF cu = None THEN q ELSE <<cu>> \o q

\* get_failover_providers(app): only providers with in_failover_queue
get_failover_providers(st, app) ==
    FilterSeq(StoreOrder, {p \in st.queue : Providers[p].app = app})

(***************************************************************************)
(* Router helpers.  rs is the router's in-memory state as one record:      *)
(* cur, susp, cool, lat, tested, res, ov, brk, rr, active.                 *)
(***************************************************************************)
NoLat == -1                         \* no url_latencies entry
NoOverride ==
    [app |-> None, priority |-> 0, supplier |-> None, run_id |-> None,
     expires_at |-> 0]

KeyLess(x, y) == x[1] < y[1] \/ (x[1] = y[1] /\ x[2] < y[2])

RECURSIVE InsertSorted(_, _, _)
InsertSorted(s, u, key) ==
    IF s = <<>> THEN <<u>>
    ELSE IF KeyLess(key[u], key[Head(s)]) THEN <<u>> \o s
         ELSE <<Head(s)>> \o InsertSorted(Tail(s), u, key)

\* Vec::sort_by_key (stable) with sort key key[u]
RECURSIVE StableSort(_, _)
StableSort(s, key) ==
    IF s = <<>> THEN <<>>
    ELSE InsertSorted(StableSort(SubSeq(s, 1, Len(s) - 1), key), s[Len(s)], key)

RECURSIVE Dedup(_)
Dedup(s) ==
    IF s = <<>> THEN <<>>
    ELSE LET front == Dedup(SubSeq(s, 1, Len(s) - 1)) IN
         IF s[Len(s)] \in SeqToSet(front) THEN front
         ELSE Append(front, s[Len(s)])

RotateLeft(s, k) ==
    IF s = <<>> THEN s ELSE SubSeq(s, k + 1, Len(s)) \o SubSeq(s, 1, k)

RECURSIVE apply_url_priority(_, _)
apply_url_priority(urls, priority) ==
    IF priority = <<>> \/ urls = <<>> THEN urls
    ELSE IF Head(priority) \in SeqToSet(urls)
         THEN <<Head(priority)>> \o
              apply_url_priority(FilterSeq(urls, SeqToSet(urls) \ {Head(priority)}),
                                 Tail(priority))
         ELSE apply_url_priority(urls, Tail(priority))

is_url_suspect(rs, app, sup, url, t) ==
    LET k == suspect_key(app, sup, url) IN
    [yes |-> rs.susp[k] > t,
     rs  |-> [rs EXCEPT !.susp[k] = IF @ > t THEN @ ELSE 0]]

is_supplier_in_cooldown(rs, app, tier, sup, t) ==
    LET k == supplier_key(app, tier, sup) IN
    [yes |-> rs.cool[k] > t,
     rs  |-> [rs EXCEPT !.cool[k] = IF @ > t THEN @ ELSE 0]]

set_supplier_current_url(rs, app, tier, sup, url) ==
    [rs EXCEPT !.cur[supplier_key(app, tier, sup)] = url]

clear_supplier_current_url(rs, app, tier, sup) ==
    [rs EXCEPT !.cur[supplier_key(app, tier, sup)] = None]

\* an override of another app, or an expired one, is dropped by the lookup
get_active_test_override(rs, app, t) ==
    IF rs.ov # NoOverride /\ rs.ov.app = app /\ t < rs.ov.expires_at
    THEN [ov |-> rs.ov, rs |-> rs]
    ELSE [ov |-> NoOverride, rs |-> [rs EXCEPT !.ov = NoOverride]]

\* settingsConfig.baseUrlPriority of the supplier's providers
parse_url_priority_from_provider(p) == Dedup(Providers[p].cfg.baseUrlPriority)

PreferredUrls(sup, provs) ==
    Dedup(default_url_priority_for_supplier(sup) \o
          (IF provs = <<>> THEN <<>>
           ELSE parse_url_priority_from_provider(Head(provs))))

IsFullChainOkLatency(l) == l # NoLat /\ l # U64_MAX /\ l < CONNECTIVITY_PENALTY_MS

(***************************************************************************)
(* URL probes.  An oracle fixes, for one select_providers or benchmark     *)
(* call, what the network answers for every URL and the iteration order of *)
(* the url HashMap.                                                        *)
(***************************************************************************)
ProbeKinds ==
    {[k |-> "OK", ms |-> 100], [k |-> "OK", ms |-> 200],
     [k |-> "OV", ms |-> 100], [k |-> "FB", ms |-> 50],
     [k |-> "FAIL", ms |-> 0]}

UrlsOf(provs, app) ==
    {extract_base_url(provs[i], app) : i \in 1..Len(provs)} \ {None}

ProvidersAt(provs, app, url) ==
    FilterSeq(provs, {p \in SeqToSet(provs) : extract_base_url(p, app) = url})

\* a URL none of whose providers carries a key gets no full-chain probe
EffectiveKind(oracle, provs, app, url) ==
    LET keyed == {p \in SeqToSet(ProvidersAt(provs, app, url)) :
                     extract_api_key_value(p, app) # None}
        kd == oracle.kind[url]
    IN  IF keyed # {} \/ kd.k \in {"FB", "FAIL"} THEN kd
        ELSE [k |-> "FB", ms |-> 50]

ProbeLatency(kd) ==
    CASE kd.k = "OK" -> kd.ms
      [] kd.k = "OV" -> kd.ms + CONNECTIVITY_PENALTY_MS
      [] kd.k = "FB" -> kd.ms + CONNECTIVITY_PENALTY_MS
      [] OTHER       -> U64_MAX

ProbeRank(kd) ==
    CASE kd.k = "OK" -> 0 [] kd.k = "OV" -> 1 [] kd.k = "FB" -> 2 [] OTHER -> 3

FirstOfKind(details, kinds, k) ==
    LET idx == {i \in 1..Len(details) : kinds[details[i]].k = k} IN
    IF idx = {} THEN None
    ELSE details[CHOOSE i \in idx : \A j \in idx : i <= j]

FirstPreferredOk(pref, details, kinds) ==
    LET idx == {i \in 1..Len(pref) :
                   pref[i] \in SeqToSet(details) /\ kinds[pref[i]].k = "OK"} IN
    IF idx = {} THEN None
    ELSE pref[CHOOSE i \in idx : \A j \in idx : i <= j]

OrElse(a, b) == IF a # None THEN a ELSE b

\* the first preferred URL that is full-chain OK, else the first OK, the first
\* overloaded, the first reachable one
PickUrl(pref, details, kinds) ==
    OrElse(FirstPreferredOk(pref, details, kinds),
           OrElse(FirstOfKind(details, kinds, "OK"),
                  OrElse(FirstOfKind(details, kinds, "OV"),
                         FirstOfKind(details, kinds, "FB"))))

\* the probe loop: one answer per URL of the supplier
ProbeAll(oracle, provs, app, urls) ==
    [u \in urls |-> EffectiveKind(oracle, provs, app, u)]

\* full-chain OK and fallback latencies go to the url_latencies cache
CacheProbeLatencies(rs, app, tier, sup, urls, kinds) ==
    [rs EXCEPT
        !.lat = [k \in LatKeys |->
                   IF k[1] = app /\ k[2] = tier /\ k[3] = sup /\ k[4] \in urls
                      /\ kinds[k[4]].k \in {"OK", "FB"}
                   THEN ProbeLatency(kinds[k[4]]) ELSE rs.lat[k]],
        !.probed = @ \cup {supplier_key(app, tier, sup)}]

\* details.sort_by_key((rank, latency))
RankDetails(order, urls, kinds) ==
    StableSort(FilterSeq(order, urls),
               [u \in urls |-> <<ProbeRank(kinds[u]), ProbeLatency(kinds[u])>>])

\* a matching test override gets the result and is cleared
ReportToOverride(got, tier, sup, chosen, kinds) ==
    IF got.ov # NoOverride /\ got.ov.priority = tier /\ got.ov.supplier = sup
    THEN [got.rs EXCEPT
            !.res[got.ov.run_id] =
                [chosen_url |-> chosen,
                 chosen_kind |-> IF chosen = None THEN "FAIL"
                                 ELSE kinds[chosen].k],
            !.ov = NoOverride]
    ELSE got.rs

BenchmarkRanked(rs, app, tier, sup, pref, t, urls, kinds, details) ==
    [rs |-> ReportToOverride(
                get_active_test_override(
                    CacheProbeLatencies(rs, app, tier, sup, urls, kinds), app, t),
                tier, sup, PickUrl(pref, details, kinds), kinds),
     details |-> details, kinds |-> kinds]

BenchmarkProbed(rs, app, tier, sup, pref, t, order, urls, kinds) ==
    BenchmarkRanked(rs, app, tier, sup, pref, t, urls, kinds,
                    RankDetails(order, urls, kinds))

BenchmarkUrlsOf(rs, app, tier, sup, provs, t, oracle, urls) ==
    BenchmarkProbed(rs, app, tier, sup, PreferredUrls(sup, provs), t,
                    oracle.order, urls, ProbeAll(oracle, provs, app, urls))

\* benchmark_urls_detailed: probe every URL of the supplier, cache the
\* full-chain and fallback latencies, rank, and report to a matching override.
\* rs.probed collects the supplier keys whose probe loop ran in the call.
benchmark_urls_detailed(rs, app, tier, sup, provs, t, oracle) ==
    BenchmarkUrlsOf(rs, app, tier, sup, provs, t, oracle, UrlsOf(provs, app))

BenchmarkResults(d) ==
    [rs |-> d.rs,
     results |-> [i \in 1..Len(d.details) |->
                    <<d.details[i], ProbeLatency(d.kinds[d.details[i]])>>]]

\* benchmark_urls: Vec<(url, latency_ms)> in ranked order
benchmark_urls(rs, app, tier, sup, provs, t, oracle) ==
    BenchmarkResults(benchmark_urls_detailed(rs, app, tier, sup, provs, t,
                                             oracle))


\* connectivity_latency: any response counts as reachable
connectivity_latency(oracle, url) ==
    IF oracle.kind[url].k = "FAIL" THEN NoLat ELSE 50

(***************************************************************************)
(* select_providers_impl, failover enabled: the URL of one supplier.       *)
(***************************************************************************)
\* a current URL that is dropped whatever its state
ForgetCurrentUrl(rs, app, tier, sup, urls, t) ==
    [rs |-> clear_supplier_current_url(rs, app, tier, sup), sel |-> None]

\* "if let Some(current_url) = get_supplier_current_url(..)": keep it when it
\* is still configured and not suspect, else clear it
KeepCurrentUrl(rs, app, tier, sup, urls, t) ==
    LET cu == rs.cur[supplier_key(app, tier, sup)] IN
    IF cu = None THEN [rs |-> rs, sel |-> None]
    ELSE IF cu \in urls
         THEN LET cs == is_url_suspect(rs, app, sup, cu, t) IN
              IF ~cs.yes THEN [rs |-> cs.rs, sel |-> cu]
              ELSE [rs |-> clear_supplier_current_url(cs.rs, app, tier, sup),
                    sel |-> None]
         ELSE [rs |-> clear_supplier_current_url(rs, app, tier, sup),
               sel |-> None]

\* first pass over the preferred URLs: a cached full-chain OK latency pins the
\* URL; an uncached URL only gets a connectivity probe that is cached
RECURSIVE PreferredCachedPass(_, _, _, _, _, _, _, _, _)
PreferredCachedPass(rs, pref, i, app, tier, sup, urls, t, oracle) ==
    IF i > Len(pref) THEN [rs |-> rs, sel |-> None]
    ELSE LET purl == pref[i] IN
         IF purl \notin urls
         THEN PreferredCachedPass(rs, pref, i + 1, app, tier, sup, urls, t, oracle)
         ELSE LET cs == is_url_suspect(rs, app, sup, purl, t)
                  k  == url_latency_key(app, tier, sup, purl)
                  l  == cs.rs.lat[k]
                  cm == connectivity_latency(oracle, purl)
              IN  IF cs.yes
                  THEN PreferredCachedPass(cs.rs, pref, i + 1, app, tier, sup,
                                           urls, t, oracle)
                  ELSE IF l # NoLat
                  THEN IF l # U64_MAX /\ l < CONNECTIVITY_PENALTY_MS
                       THEN [rs  |-> set_supplier_current_url(cs.rs, app, tier,
                                                              sup, purl),
                             sel |-> purl]
                       ELSE PreferredCachedPass(cs.rs, pref, i + 1, app, tier,
                                                sup, urls, t, oracle)
                  ELSE IF cm # NoLat
                  THEN PreferredCachedPass(
                          [cs.rs EXCEPT !.lat[k] = cm + CONNECTIVITY_PENALTY_MS],
                          pref, i + 1, app, tier, sup, urls, t, oracle)
                  ELSE PreferredCachedPass(cs.rs, pref, i + 1, app, tier, sup,
                                           urls, t, oracle)

\* keep the URLs that have a usable latency and are not suspect
RECURSIVE FilterUsable(_, _, _, _, _)
FilterUsable(rs, pairs, app, sup, t) ==
    IF pairs = <<>> THEN [rs |-> rs, urls |-> <<>>]
    ELSE LET hd == Head(pairs) IN
         IF hd[2] = U64_MAX
         THEN FilterUsable(rs, Tail(pairs), app, sup, t)
         ELSE LET cs   == is_url_suspect(rs, app, sup, hd[1], t)
                  rest == FilterUsable(cs.rs, Tail(pairs), app, sup, t)
              IN  [rs |-> rest.rs,
                   urls |-> IF cs.yes THEN rest.urls ELSE <<hd[1]>> \o rest.urls]

\* second pass: a preferred URL among the filtered ones with a cached
\* full-chain OK latency
RECURSIVE PreferredFilteredPass(_, _, _, _, _, _, _, _)
PreferredFilteredPass(rs, pref, i, app, tier, sup, filtered, t) ==
    IF i > Len(pref) THEN [rs |-> rs, sel |-> None]
    ELSE LET purl == pref[i] IN
         IF purl \notin SeqToSet(filtered)
         THEN PreferredFilteredPass(rs, pref, i + 1, app, tier, sup, filtered, t)
         ELSE LET cs == is_url_suspect(rs, app, sup, purl, t)
                  l  == cs.rs.lat[url_latency_key(app, tier, sup, purl)]
              IN  IF ~cs.yes /\ IsFullChainOkLatency(l)
                  THEN [rs  |-> set_supplier_current_url(cs.rs, app, tier, sup,
                                                         purl),
                        sel |-> purl]
                  ELSE PreferredFilteredPass(cs.rs, pref, i + 1, app, tier, sup,
                                             filtered, t)


\* the cached latencies of the supplier's URLs, fastest first
CachedRanking(rs, app, tier, sup, urls, order) ==
    LET latOf == [u \in urls |->
                    IF rs.lat[url_latency_key(app, tier, sup, u)] = NoLat
                    THEN U64_MAX
                    ELSE rs.lat[url_latency_key(app, tier, sup, u)]]
        key   == [u \in urls |-> <<0, latOf[u]>>]
    IN  [i \in 1..Cardinality(urls) |->
            <<StableSort(FilterSeq(order, urls), key)[i],
              latOf[StableSort(FilterSeq(order, urls), key)[i]]>>]

\* the first usable URL, a preferred one with a full-chain OK latency first
PickFiltered(f1, pp, pref, app, tier, sup) ==
    LET filtered == IF Len(f1.urls) > 1 /\ pp.sel = None
                    THEN apply_url_priority(f1.urls, pref) ELSE f1.urls
    IN  IF pp.sel # None THEN pp
        ELSE IF filtered # <<>>
             THEN [rs  |-> set_supplier_current_url(pp.rs, app, tier, sup,
                                                    Head(filtered)),
                   sel |-> Head(filtered)]
             ELSE [rs |-> pp.rs, sel |-> None]

PickAmongUsable(f1, pref, app, tier, sup, t) ==
    PickFiltered(f1,
                 IF Len(f1.urls) > 1
                 THEN PreferredFilteredPass(f1.rs, pref, 1, app, tier, sup,
                                            f1.urls, t)
                 ELSE [rs |-> f1.rs, sel |-> None],
                 pref, app, tier, sup)

\* the benchmark's results replace the cached ranking; the supplier is tested
AfterBenchmark(b, tkey, app, sup, t) ==
    FilterUsable([b.rs EXCEPT !.tested = @ \cup {tkey}], b.results, app, sup, t)

BenchmarkIfNeeded(f0, should_benchmark, app, tier, sup, provs, t, oracle) ==
    IF should_benchmark \/ f0.urls = <<>>
    THEN AfterBenchmark(benchmark_urls(f0.rs, app, tier, sup, provs, t, oracle),
                        supplier_key(app, tier, sup), app, sup, t)
    ELSE f0

RankCached(force, rs, cached, app, tier, sup, provs, t, oracle) ==
    PickAmongUsable(
        BenchmarkIfNeeded(
            FilterUsable(rs, cached, app, sup, t),
            \/ force
            \/ supplier_key(app, tier, sup) \notin rs.tested
            \/ \A i \in 1..Len(cached) : cached[i][2] = U64_MAX,
            app, tier, sup, provs, t, oracle),
        PreferredUrls(sup, provs), app, tier, sup, t)

\* no current URL and no pinned preferred URL: rank the URLs by cached
\* latency, benchmarking when the supplier was never tested or nothing is usable
RankAndPickWith(force, rs, app, tier, sup, provs, t, oracle) ==
    RankCached(force, rs,
               IF supplier_key(app, tier, sup) \notin rs.tested THEN <<>>
               ELSE CachedRanking(rs, app, tier, sup, UrlsOf(provs, app),
                                  oracle.order),
               app, tier, sup, provs, t, oracle)

RankAndPick(rs, app, tier, sup, provs, t, oracle) ==
    RankAndPickWith(FALSE, rs, app, tier, sup, provs, t, oracle)

\* a supplier with one URL that uses it even when it is suspect
SingleUrlAlways(rs, app, tier, sup, u, t) ==
    [rs |-> set_supplier_current_url(rs, app, tier, sup, u), sel |-> u]

\* a supplier with one URL uses it unless it is suspect
SingleUrl(rs, app, tier, sup, u, t) ==
    LET cs == is_url_suspect(rs, app, sup, u, t) IN
    IF ~cs.yes
    THEN [rs |-> set_supplier_current_url(cs.rs, app, tier, sup, u), sel |-> u]
    ELSE [rs |-> cs.rs, sel |-> None]

AfterPreferredCached(pc, app, tier, sup, provs, t, oracle) ==
    IF pc.sel # None THEN pc
    ELSE RankAndPick(pc.rs, app, tier, sup, provs, t, oracle)

AfterSecondLook(again, app, tier, sup, provs, urls, t, oracle) ==
    IF again.sel # None THEN again
    ELSE AfterPreferredCached(
             PreferredCachedPass(again.rs, PreferredUrls(sup, provs), 1, app,
                                 tier, sup, urls, t, oracle),
             app, tier, sup, provs, t, oracle)

\* under the supplier benchmark lock: second look at the current URL
AfterFirstLook(first, app, tier, sup, provs, urls, t, oracle) ==
    IF first.sel # None THEN first
    ELSE AfterSecondLook(KeepCurrentUrl(first.rs, app, tier, sup, urls, t),
                         app, tier, sup, provs, urls, t, oracle)

SelectUrlAmong(rs, app, tier, sup, provs, urls, t, oracle) ==
    AfterFirstLook(
        IF Cardinality(urls) = 1
        THEN SingleUrl(rs, app, tier, sup, CHOOSE v \in urls : TRUE, t)
        ELSE KeepCurrentUrl(rs, app, tier, sup, urls, t),
        app, tier, sup, provs, urls, t, oracle)

SelectUrl(rs, app, tier, sup, provs, t, oracle) ==
    SelectUrlAmong(rs, app, tier, sup, provs, UrlsOf(provs, app), t, oracle)

\* every provider at the URL kept, whatever its key value
KeepEveryKey(provs, app, seen) == provs

\* first provider per distinct key value
RECURSIVE UniqueByKey(_, _, _)
UniqueByKey(provs, app, seen) ==
    IF provs = <<>> THEN <<>>
    ELSE IF extract_api_key_value(Head(provs), app) \in seen \cup {None}
         THEN UniqueByKey(Tail(provs), app, seen)
         ELSE <<Head(provs)>> \o
              UniqueByKey(Tail(provs), app,
                          seen \cup {extract_api_key_value(Head(provs), app)})

\* the router's availability test of one key: read-only is_available
AvailabilityConsumingPermit(b, t) ==
    LET r == allow_request(b, t) IN [ok |-> r.allowed, brk |-> r.brk]

\* a candidate filter that does not consult the breaker
AvailabilityIgnored(b, t) == [ok |-> TRUE, brk |-> b]

AvailabilityCheck(b, t) == [ok |-> is_available(b, t), brk |-> b]

RECURSIVE BreakerFilter(_, _, _)
BreakerFilter(rs, provs, t) ==
    IF provs = <<>> THEN [rs |-> rs, cands |-> {}]
    ELSE LET r    == AvailabilityCheck(rs.brk[Head(provs)], t)
             rest == BreakerFilter([rs EXCEPT !.brk[Head(provs)] = r.brk],
                                   Tail(provs), t)
         IN  [rs |-> rest.rs,
              cands |-> IF r.ok THEN {Head(provs)} \cup rest.cands
                        ELSE rest.cands]

\* no usable URL: the supplier cools down; else its available keys
AfterSelectUrl(su, app, tier, sup, provs, t) ==
    IF su.sel = None
    THEN [rs |-> [su.rs EXCEPT !.cool[supplier_key(app, tier, sup)] =
                                   t + COOLDOWN_SECONDS],
          cands |-> {}]
    ELSE BreakerFilter(su.rs,
                       UniqueByKey(ProvidersAt(provs, app, su.sel), app, {}), t)

SupplierCandidates(rs, app, tier, sup, provs, ovActive, t, oracle) ==
    LET cd == IF ovActive THEN [yes |-> FALSE, rs |-> rs]
              ELSE is_supplier_in_cooldown(rs, app, tier, sup, t)
    IN  IF cd.yes THEN [rs |-> cd.rs, cands |-> {}]
        ELSE AfterSelectUrl(SelectUrl(cd.rs, app, tier, sup, provs, t, oracle),
                            app, tier, sup, provs, t)

(***************************************************************************)
(* select_providers_impl: tiers, key round-robin, the two branches.        *)
(***************************************************************************)
MergeCands(cands, rest) == [rs |-> rest.rs, cands |-> cands \cup rest.cands]

RECURSIVE SupplierLoop(_, _, _, _, _, _, _, _)
SupplierLoopRest(one, sups, app, tier, provs, ovActive, t, oracle) ==
    MergeCands(one.cands,
               SupplierLoop(one.rs, Tail(sups), app, tier, provs, ovActive, t,
                            oracle))

SupplierLoop(rs, sups, app, tier, provs, ovActive, t, oracle) ==
    IF sups = <<>> THEN [rs |-> rs, cands |-> {}]
    ELSE SupplierLoopRest(
             SupplierCandidates(rs, app, tier, Head(sups),
                 FilterSeq(provs, {p \in SeqToSet(provs) :
                                      supplier_name(p) = Head(sups)}),
                 ovActive, t, oracle),
             sups, app, tier, provs, ovActive, t, oracle)

SortById(set) ==
    StableSort(FilterSeq(StoreOrder, set), [p \in set |-> <<IdRank[p], 0>>])

\* the per-tier key-rr counter: read, then post-increment modulo n
RotateCount(counter, n) == counter % n

\* a counter that is read but never advanced
NextCounterStuck(counter, n) == counter % n

NextCounter(counter, n) == (counter + 1) % n

\* sort the tier's keys by provider id and rotate by the key-rr counter
RotateTier(got, k) ==
    IF got.cands = {} THEN [rs |-> got.rs, cands |-> <<>>]
    ELSE [rs    |-> [got.rs EXCEPT
                        !.rr[k] = NextCounter(@, Cardinality(got.cands))],
          cands |-> RotateLeft(SortById(got.cands),
                               RotateCount(got.rs.rr[k],
                                           Cardinality(got.cands)))]

TierSuppliers(rs, app, tier, grouped, ov, t, oracle) ==
    SupplierLoop(rs,
                 Dedup([i \in 1..Len(grouped) |-> supplier_name(grouped[i])]),
                 app, tier, grouped, ov # NoOverride, t, oracle)

\* one tier: group by supplier and URL, collect the available keys,
\* sort them by provider id and rotate by the key-rr counter
TierCandidates(rs, app, tier, provsInLevel, ov, t, oracle) ==
    RotateTier(
        TierSuppliers(rs, app, tier,
            FilterSeq(provsInLevel,
                {p \in SeqToSet(provsInLevel) :
                    /\ (ov = NoOverride \/ supplier_name(p) = ov.supplier)
                    /\ extract_base_url(p, app) # None}),
            ov, t, oracle),
        <<app, tier>>)

\* iteration order of the BTreeMap of tiers
RECURSIVE Ascending(_)
Ascending(set) ==
    IF set = {} THEN <<>>
    ELSE LET m == CHOOSE x \in set : \A y \in set : x <= y
         IN  <<m>> \o Ascending(set \ {m})

TierList(provs) == Ascending({SortIndexOrDefault(p) : p \in SeqToSet(provs)})

AppendChain(cands, rest) == [rs |-> rest.rs, chain |-> cands \o rest.chain]

RECURSIVE TierLoop(_, _, _, _, _, _, _)
TierLoopRest(one, tiers, app, fp, ov, t, oracle) ==
    AppendChain(one.cands,
                TierLoop(one.rs, Tail(tiers), app, fp, ov, t, oracle))

TierLoop(rs, tiers, app, fp, ov, t, oracle) ==
    IF tiers = <<>> THEN [rs |-> rs, chain |-> <<>>]
    ELSE IF ov # NoOverride /\ Head(tiers) # ov.priority
         THEN TierLoop(rs, Tail(tiers), app, fp, ov, t, oracle)
         ELSE TierLoopRest(
                  TierCandidates(rs, app, Head(tiers),
                      FilterSeq(fp, {p \in SeqToSet(fp) :
                                       SortIndexOrDefault(p) = Head(tiers)}),
                      ov, t, oracle),
                  tiers, app, fp, ov, t, oracle)

\* an empty chain is a Config error; else the level of the chain's head is
\* the active priority level
ChainResult(res, app) ==
    IF res.chain = <<>>
    THEN [rs |-> res.rs, ok |-> FALSE, chain |-> <<>>]
    ELSE [rs |-> [res.rs EXCEPT !.active[app] =
                                   SortIndexOrDefault(res.chain[1])],
          ok |-> TRUE, chain |-> res.chain]

ChainOver(got, fp, app, t, oracle) ==
    ChainResult(TierLoop(got.rs, TierList(fp), app, fp, got.ov, t, oracle), app)

\* failover enabled: the chain over the failover queue, tier by tier
SelectFailoverChain(rs, st, app, t, oracle) ==
    ChainOver(get_active_test_override(rs, app, t),
              get_failover_providers(st, app), app, t, oracle)


\* the current provider, dropped when its breaker is not available
SelectCurrentIfAvailable(rs, st, app) ==
    LET id == get_current_provider(st, app)
        cu == IF id = None THEN None ELSE get_provider_by_id(id, app)
    IN  IF cu # None /\ is_available(rs.brk[cu], 0)
        THEN [rs |-> rs, ok |-> TRUE, chain |-> <<cu>>]
        ELSE [rs |-> rs, ok |-> FALSE, chain |-> <<>>]

\* failover disabled: the current provider only, breaker not consulted
SelectCurrentOnly(rs, st, app) ==
    LET id == get_current_provider(st, app)
        cu == IF id = None THEN None ELSE get_provider_by_id(id, app)
    IN  IF cu # None THEN [rs |-> rs, ok |-> TRUE, chain |-> <<cu>>]
        ELSE [rs |-> rs, ok |-> FALSE, chain |-> <<>>]

select_providers(rs, st, app, t, oracle) ==
    IF st.failover[app] THEN SelectFailoverChain(rs, st, app, t, oracle)
    ELSE SelectCurrentOnly(rs, st, app)

(***************************************************************************)
(* State, inputs and the sequential router interface.                      *)
(***************************************************************************)
TickSeconds == COOLDOWN_SECONDS     \* granularity of the clock
TtlChoices == {20}                  \* ttl_secs a caller passes
RunIds == {"run1"}
NoResult == [chosen_url |-> None, chosen_kind |-> None]

AllUrls == {extract_base_url(p, Providers[p].app) : p \in ProviderIds}

RouterState ==
    [cur |-> currentUrl, susp |-> suspect, cool |-> cooldown, lat |-> urlLat,
     tested |-> tested, res |-> testResults, ov |-> testOverride,
     brk |-> breaker, rr |-> rr, active |-> activeLevel, probed |-> {}]

SetRouterState(rs) ==
    /\ currentUrl' = rs.cur
    /\ suspect' = rs.susp
    /\ cooldown' = rs.cool
    /\ urlLat' = rs.lat
    /\ tested' = rs.tested
    /\ testResults' = rs.res
    /\ testOverride' = rs.ov
    /\ breaker' = rs.brk
    /\ rr' = rs.rr
    /\ activeLevel' = rs.active

\* URLs of the app's queued suppliers that a selection may probe: those of a
\* supplier with several URLs, and those carrying a suspect mark
QueuedOf(st, app) == {p \in st.queue : Providers[p].app = app}

MultiUrlsOf(st, app) ==
    {extract_base_url(p, app) : p \in
        {q \in QueuedOf(st, app) :
            \E q2 \in QueuedOf(st, app) :
                /\ SortIndexOrDefault(q2) = SortIndexOrDefault(q)
                /\ supplier_name(q2) = supplier_name(q)
                /\ extract_base_url(q2, app) # extract_base_url(q, app)}}

IsSuspectNow(app, p, url, t) ==
    url # None /\ suspect[suspect_key(app, supplier_name(p), url)] > t

ProbedUrls(st, app, t) ==
    {extract_base_url(p, app) : p \in
        {q \in QueuedOf(st, app) :
            LET cu == currentUrl[supplier_key(app, SortIndexOrDefault(q),
                                              supplier_name(q))]
            IN  \/ IsSuspectNow(app, q, extract_base_url(q, app), t)
                \/ /\ extract_base_url(q, app) \in MultiUrlsOf(st, app)
                   /\ (cu = None \/ IsSuspectNow(app, q, cu, t))}}

DefaultKind == [k |-> "FAIL", ms |-> 0]

RECURSIVE SetToSeq(_)
SetToSeq(set) ==
    IF set = {} THEN <<>>
    ELSE LET m == CHOOSE x \in set : TRUE IN <<m>> \o SetToSeq(set \ {m})

Perms(set) ==
    {s \in [1..Cardinality(set) -> set] : \A x \in set : \E i \in DOMAIN s : s[i] = x}

\* the oracles that differ on what one call can observe
OraclesFor(kinds, probed, multi) ==
    {[kind  |-> [u \in AllUrls |-> IF u \in probed THEN f[u] ELSE DefaultKind],
      order |-> o \o SetToSeq(AllUrls \ (multi \cap probed))] :
        f \in [probed -> kinds], o \in Perms(multi \cap probed)}

OraclesOver(kinds, st, app, t) ==
    OraclesFor(kinds, ProbedUrls(st, app, t), MultiUrlsOf(st, app))

Oracles(st, app, t) == OraclesOver(ProbeKinds, st, app, t)

(***************************************************************************)
(* Errors of one upstream attempt.  marks are the marker substrings of     *)
(* is_likely_network_error found in the error's text.                      *)
(***************************************************************************)
NetworkMarkers ==
    {"chaoshi", "lianjie shibai", "Connection refused", "connection refused",
     "dns", "DNS", "timed out", "error sending request", "connection closed",
     "Upstream request failed", "zhuanfa shibai: error",
     "zhuanfa shibai: timed out", "zhuanfa shibai: Connection refused"}

NoError == [variant |-> None, status |-> 0, marks |-> {}]

\* a predicate that takes every error text for a network error
any_error_text(err) == TRUE

TimeoutError ==
    [variant |-> "Timeout", status |-> 0, marks |-> {"chaoshi", "timed out"}]
UpstreamError500 == [variant |-> "UpstreamError", status |-> 500, marks |-> {}]

\* ProxyError::UpstreamError { status, body }
UpstreamError(code) ==
    [variant |-> "UpstreamError", status |-> code, marks |-> {}]

\* ProxyError::ForwardFailed("lianjie shibai: ..") of a failed connect
ForwardFailedError ==
    [variant |-> "ForwardFailed", status |-> 0, marks |-> {"lianjie shibai"}]

\* a classification after which an upstream 401 or 403 ends the request
categorize_auth_final(err) ==
    IF err.variant = "UpstreamError" /\ err.status \in {401, 403}
    THEN "NonRetryable" ELSE "Retryable"
AuthError == [variant |-> "AuthError", status |-> 0, marks |-> {}]

Errors == {TimeoutError, UpstreamError500, AuthError}

is_likely_network_error(err) == err.marks \cap NetworkMarkers # {}

should_retry_same_provider(err) ==
    CASE err.variant \in {"Timeout", "ForwardFailed"} -> TRUE
      [] err.variant = "UpstreamError" ->
            err.status = 408 \/ err.status = 429 \/ err.status >= 500
      [] OTHER -> FALSE

categorize_proxy_error(err) ==
    IF err.variant \in {"Timeout", "ForwardFailed", "ProviderUnhealthy",
                        "UpstreamError", "ConfigError", "TransformError",
                        "AuthError", "StreamIdleTimeout", "MaxRetriesExceeded"}
    THEN "Retryable" ELSE "NonRetryable"

(***************************************************************************)
(* Router entry points besides select_providers.                           *)
(***************************************************************************)
allow_provider_request(rs, p, t) ==
    LET r == allow_request(rs.brk[p], t) IN
    [rs |-> [rs EXCEPT !.brk[p] = r.brk],
     allowed |-> r.allowed, used_half_open_permit |-> r.used_half_open_permit]

\* breaker first; a likely network error marks the provider's URL suspect and
\* clears the supplier's current URL; a success removes the suspect mark
record_result(rs, p, app, used_half_open_permit, success, err, t) ==
    LET rs1 == [rs EXCEPT !.brk[p] =
                    IF success THEN record_success(@, used_half_open_permit, t)
                    ELSE record_failure(@, used_half_open_permit, t)]
        prov == get_provider_by_id(p, app)
        url  == IF prov = None THEN None ELSE extract_base_url(prov, app)
    IN  IF prov = None \/ url = None THEN rs1
        ELSE IF success
             THEN [rs1 EXCEPT !.susp[suspect_key(app, supplier_name(p), url)] = 0]
        ELSE IF err # NoError /\ is_likely_network_error(err)
             THEN clear_supplier_current_url(
                      [rs1 EXCEPT !.susp[suspect_key(app, supplier_name(p), url)] =
                                      t + SUSPECT_SECONDS],
                      app, SortIndexOrDefault(p), supplier_name(p))
        ELSE rs1

set_test_override(rs, app, priority, supplier, run_id, ttl_secs, t) ==
    LET rs1 == clear_supplier_current_url(rs, app, priority, supplier) IN
    [rs1 EXCEPT !.tested = @ \ {supplier_key(app, priority, supplier)},
                !.res[run_id] = NoResult,
                !.ov = [app |-> app, priority |-> priority,
                        supplier |-> supplier, run_id |-> run_id,
                        expires_at |-> t + ttl_secs]]

get_test_result(rs, run_id) == rs.res[run_id]

\* section 4.10: whether an override is active for the app; an expired one is
\* dropped on access
has_active_test_override(rs, app, t) ==
    LET live == rs.ov # NoOverride /\ t < rs.ov.expires_at IN
    [yes |-> live /\ rs.ov.app = app,
     rs  |-> IF rs.ov # NoOverride /\ ~live THEN [rs EXCEPT !.ov = NoOverride]
             ELSE rs]

\* a forwarder hook that stores no outcome
record_no_startup_test(rs, app, p, success, t) ==
    has_active_test_override(rs, app, t).rs

\* section 4.10: on completion of a request under an override its outcome is
\* stored under the override's run id
maybe_record_startup_test_from_forwarder(rs, app, p, success, t) ==
    LET got == has_active_test_override(rs, app, t) IN
    IF got.yes
    THEN [got.rs EXCEPT !.res[got.rs.ov.run_id] =
             [chosen_url |-> extract_base_url(p, app),
              chosen_kind |-> IF success THEN "OK" ELSE "FAIL"]]
    ELSE got.rs

(***************************************************************************)
(* Initial state: a fresh router and forwarder over one of the Store       *)
(* configurations.                                                         *)
(***************************************************************************)
Tasks == {"t1", "t2"}

\* a task that may run a URL benchmark: kind is the entry point it runs
\* (select, all), key the supplier whose URLs it is probing
IdleTask == [pc |-> "idle", kind |-> None, app |-> None, key |-> None]

Reqs == {"r1", "r2"}
TaskSlots == Reqs \cup {"r3"}       \* the counter runs hold three requests
ReqRank == [r1 |-> 1, r2 |-> 2, r3 |-> 3]    \* slots are taken in this order

\* one inbound request: pc is its position (idle, selected, walk, sent);
\* under: an override was active for its app when its chain was selected;
\* test: is_startup_test; admit: how the provider in flight was admitted
\* (none, closed, permit); at: the breaker state when it was dispatched
IdleReq ==
    [pc |-> "idle", app |-> None, chain |-> <<>>, test |-> FALSE,
     under |-> FALSE, bypass |-> FALSE, prov |-> None, admit |-> "none",
     at |-> None, tries |-> 0, ti |-> 0, round |-> 0, pi |-> 0, skipped |-> 0,
     attempted |-> 0]

InitHist ==
    [op |-> "init", app |-> None, ok |-> FALSE, chain |-> <<>>,
     calls |-> [a \in Apps |-> 0],
     base |-> [a \in Apps |-> {}],
     stable |-> [a \in Apps |-> {}],
     ncalls |-> 0,
     test |-> FALSE,
     called |-> {},
     balance |-> [p \in ProviderIds |-> 0],
     issued |-> 0,
     overrides |-> 0,
     runs |-> 0]

\* apps: the apps whose clients reach the proxy in the run
StoreConfig(apps, failover, queue, current, retries) ==
    [apps |-> apps,
     failover |-> [a \in Apps |-> a \in failover],
     queue |-> queue,
     current |-> [a \in Apps |-> IF a \in apps THEN current ELSE None],
     max_retries |-> retries]

RouterStores ==
    {StoreConfig({"claude"}, {"claude"}, {"a", "b", "c"}, None, 0),
     StoreConfig({"claude"}, {"claude"}, {"a", "b", "f"}, "e", 0),
     StoreConfig({"claude"}, {"claude"}, {"c", "e"}, "b", 0),
     StoreConfig({"claude"}, {}, {"a", "b"}, "c", 0),
     StoreConfig({"claude"}, {}, {"c"}, "c", 0),
     StoreConfig({"claude"}, {}, {"a"}, None, 0),
     StoreConfig({"claude"}, {}, {}, "ghost", 0),
     StoreConfig({"codex"}, {"codex"}, {"x"}, "x", 0)}

\* no sanitizer call, no alias map, no cached model list, no resolver call
NoSan == [pc |-> "idle", input |-> <<>>, once |-> <<>>, twice |-> <<>>]
NoEnv == [aliases |-> <<>>, writes |-> 0, read |-> 0]
NoCache == [pc |-> "idle"]
NoCall == [pc |-> "idle"]

\* ProxyStatus::default(): nothing counted yet
NoStats ==
    [total_requests |-> 0, success_requests |-> 0, failed_requests |-> 0,
     success_rate |-> 0]

\* (success_requests / total_requests) * 100 if total_requests > 0, in whole
\* percents
SuccessRate(s) ==
    IF s.total_requests > 0
    THEN (s.success_requests * 100) \div s.total_requests
    ELSE s.success_rate

\* status.total_requests += 1, before a provider is sent to
CountRequest(s) == [s EXCEPT !.total_requests = @ + 1]

\* status.success_requests += 1 and the rate
CountSuccess(s) ==
    LET s1 == [s EXCEPT !.success_requests = @ + 1]
    IN  [s1 EXCEPT !.success_rate = SuccessRate(s1)]

\* status.failed_requests += 1 and the rate
CountFailure(s) ==
    LET s1 == [s EXCEPT !.failed_requests = @ + 1]
    IN  [s1 EXCEPT !.success_rate = SuccessRate(s1)]

\* the counters after an outcome that counts as "success", "failed" or not
\* at all
Counted(s, outcome) ==
    CASE outcome = "success" -> CountSuccess(s)
      [] outcome = "failed"  -> CountFailure(s)
      [] OTHER               -> s

InitProxy(stores) ==
    /\ now = 0
    /\ store \in stores
    /\ breaker = [p \in ProviderIds |-> BreakerNew]
    /\ rr = [k \in RRKeys |-> 0]
    /\ activeLevel = [a \in Apps |-> NoIndex]
    /\ tested = {}
    /\ urlLat = [k \in LatKeys |-> NoLat]
    /\ cooldown = [k \in SupplierKeys |-> 0]
    /\ suspect = [k \in SuspectKeys |-> 0]
    /\ currentUrl = [k \in SupplierKeys |-> None]
    /\ testOverride = NoOverride
    /\ testResults = [r \in RunIds |-> NoResult]
    /\ persisted = [a \in Apps |-> None]
    /\ req = [r \in TaskSlots |-> IdleReq]
    /\ bench = [t \in Tasks |-> IdleTask]
    /\ benchLock = [k \in SupplierKeys |-> None]
    /\ status = [a \in Apps |-> None]
    /\ stats = NoStats
    /\ wb = {}
    /\ hist = InitHist

InitWith(stores) ==
    /\ InitProxy(stores)
    /\ san = NoSan
    /\ env = NoEnv
    /\ modelCache = NoCache
    /\ call = NoCall

Init == InitWith(RouterStores)

(***************************************************************************)
(* The router called sequentially: one action per entry point.             *)
(***************************************************************************)
\* the providers a caller of the router names: queued or current ones
Callable(app) ==
    {p \in ProviderIds : /\ Providers[p].app = app
                         /\ app \in store.apps
                         /\ (p \in store.queue \/ store.current[app] = p)}

TierMembers(chain, tier) ==
    {p \in SeqToSet(chain) : SortIndexOrDefault(p) = tier}

\* history of the select_providers calls of one app: the tiers whose
\* candidates have been the same set in every call so far
SelectHistory(h, app, res) ==
    [h EXCEPT !.op = "select", !.app = app, !.ok = res.ok, !.chain = res.chain,
              !.calls[app] = @ + 1,
              !.base[app] = IF h.calls[app] = 0 THEN SeqToSet(res.chain) ELSE @,
              !.stable[app] =
                  IF h.calls[app] = 0
                  THEN {SortIndexOrDefault(p) : p \in SeqToSet(res.chain)}
                  ELSE {t \in @ : TierMembers(res.chain, t) =
                                  {p \in h.base[app] : SortIndexOrDefault(p) = t}}]

SelectProvidersOver(kinds, app) ==
    /\ app \in store.apps
    /\ hist.calls[app] < MaxSelects
    /\ \E oracle \in OraclesOver(kinds, store, app, now) :
          LET res == select_providers(RouterState, store, app, now, oracle) IN
          /\ SetRouterState(res.rs)
          /\ hist' = SelectHistory(hist, app, res)
    /\ UNCHANGED <<status, stats, wb, resolverVars, now, store, persisted, req,
                   bench, benchLock>>

SelectProviders(app) == SelectProvidersOver(ProbeKinds, app)

AllowProviderRequest(p) ==
    /\ p \in Callable(Providers[p].app)
    /\ hist.ncalls < MaxCalls
    /\ LET r == allow_provider_request(RouterState, p, now) IN
          /\ SetRouterState(r.rs)
          /\ hist' = [hist EXCEPT !.op = "allow", !.app = None, !.ok = FALSE,
                                  !.chain = <<>>, !.ncalls = @ + 1]
    /\ UNCHANGED <<status, stats, wb, resolverVars, now, store, persisted, req,
                   bench, benchLock>>

RecordResult(p, used, success, err) ==
    /\ p \in Callable(Providers[p].app)
    /\ hist.ncalls < MaxCalls
    /\ success <=> err = NoError
    /\ SetRouterState(record_result(RouterState, p, Providers[p].app, used,
                                    success, err, now))
    /\ hist' = [hist EXCEPT !.op = "record", !.app = None, !.ok = FALSE,
                            !.chain = <<>>, !.ncalls = @ + 1]
    /\ UNCHANGED <<status, stats, wb, resolverVars, now, store, persisted, req,
                   bench, benchLock>>

SetTestOverride(app, key, run_id, ttl_secs) ==
    /\ app \in store.apps
    /\ hist.overrides < MaxOverrides
    /\ \E p \in store.queue :
          key = supplier_key(app, SortIndexOrDefault(p), supplier_name(p))
    /\ SetRouterState(set_test_override(RouterState, app, key[2], key[3],
                                        run_id, ttl_secs, now))
    /\ hist' = [hist EXCEPT !.op = "override", !.app = None, !.ok = FALSE,
                            !.chain = <<>>, !.test = FALSE, !.called = {},
                            !.overrides = @ + 1]
    /\ UNCHANGED <<status, stats, wb, resolverVars, now, store, persisted, req,
                   bench, benchLock>>

Tick ==
    /\ now + TickSeconds <= MaxTime
    /\ now' = now + TickSeconds
    /\ hist' = [hist EXCEPT !.op = "tick", !.app = None, !.ok = FALSE,
                            !.chain = <<>>]
    /\ UNCHANGED <<status, stats, wb, resolverVars, store, breaker, rr, activeLevel,
                   tested, urlLat, cooldown,
                   suspect, currentUrl, testOverride, testResults, persisted,
                   req, bench, benchLock>>

Next ==
    \/ \E app \in Apps : SelectProviders(app)
    \/ \E p \in ProviderIds : AllowProviderRequest(p)
    \/ \E p \in ProviderIds, used \in BOOLEAN, err \in {NoError, AuthError} :
          RecordResult(p, used, err = NoError, err)
    \/ Tick

Spec == Init /\ [][Next]_vars

(***************************************************************************)
(* The router with network failures and a test override: suspect marks,    *)
(* cooldowns and the suppliers' current URLs.                              *)
(***************************************************************************)
UrlProbeKinds ==
    {[k |-> "OK", ms |-> 100], [k |-> "FB", ms |-> 50], [k |-> "FAIL", ms |-> 0]}

UrlStores ==
    {StoreConfig({"claude"}, {"claude"}, {"a", "b", "c"}, None, 0),
     StoreConfig({"claude"}, {"claude"}, {"a", "d", "c"}, None, 0)}

InitUrl == InitWith(UrlStores)

NextUrl ==
    \/ \E app \in Apps :
          hist.calls[app] < MaxUrlSelects
              /\ SelectProvidersOver(UrlProbeKinds, app)
    \/ \E p \in ProviderIds, err \in {NoError} \cup Errors :
          hist.ncalls < MaxUrlCalls
              /\ RecordResult(p, FALSE, err = NoError, err)
    \/ \E app \in Apps, key \in SupplierKeys, ttl \in TtlChoices :
          SetTestOverride(app, key, "run1", ttl)
    \/ now < MaxUrlTime /\ Tick

SpecUrl == InitUrl /\ [][NextUrl]_vars

(***************************************************************************)
(* Properties of the suspect marks, cooldowns and current URLs (SpecUrl).  *)
(***************************************************************************)
SuspectKeyOf(p) ==
    suspect_key(Providers[p].app, supplier_name(p),
                extract_base_url(p, Providers[p].app))

SupplierKeyOf(p) ==
    supplier_key(Providers[p].app, SortIndexOrDefault(p), supplier_name(p))

\* C16: a record_result call with success = false whose error text holds a
\* network marker sets the suspect mark of the provider's base URL to 60 s
\* from now and removes the supplier's current URL; a call with any other
\* error leaves the suspect map and the current-URL map as they were.
C16_SuspectOnlyOnNetworkError ==
    [][\A p \in ProviderIds, err \in Errors :
          RecordResult(p, FALSE, FALSE, err) =>
              IF err.marks \cap NetworkMarkers # {}
              THEN /\ suspect' = [suspect EXCEPT ![SuspectKeyOf(p)] = now + 60]
                   /\ currentUrl' =
                          [currentUrl EXCEPT ![SupplierKeyOf(p)] = None]
              ELSE /\ suspect' = suspect
                   /\ currentUrl' = currentUrl]_vars

\* the first selection returned a, so anyrouter had a current URL; then a
\* timeout was recorded for a: its URL is suspect for 60 s and the current
\* URL is gone
C16_Witness ==
    /\ hist.op = "record" /\ hist.overrides = 0
    /\ "a" \in hist.base["claude"]
    /\ breaker["a"].state = "Open"
    /\ suspect[SuspectKeyOf("a")] = now + 60
    /\ currentUrl[SupplierKeyOf("a")] = None

\* a test override for the app is in force now
OverrideActive(app) ==
    /\ testOverride # NoOverride
    /\ testOverride.app = app
    /\ now < testOverride.expires_at

QueuedAt(app, k) == {p \in QueuedOf(store, app) : SupplierKeyOf(p) = k}

UrlsOfKey(app, k) == {extract_base_url(p, app) : p \in QueuedAt(app, k)} \ {None}

QueuedSupplierKeys(app) == {SupplierKeyOf(p) : p \in QueuedOf(store, app)}

\* the supplier has one configured URL and that URL is suspect now
OnlyUrlSuspect(app, k) ==
    \E u \in UrlsOfKey(app, k) :
        /\ UrlsOfKey(app, k) = {u}
        /\ suspect[suspect_key(app, k[3], u)] > now

\* a step that is a select_providers call for app with failover enabled
FailoverSelectStep(app) ==
    /\ hist'.op = "select" /\ hist'.app = app
    /\ hist'.calls[app] = hist.calls[app] + 1
    /\ store.failover[app]

\* a queued key of a one-URL supplier that is usable now: URL not suspect,
\* supplier not cooling down, breaker available, key value not shared
UsableKey(app, q) ==
    /\ Cardinality(UrlsOfKey(app, SupplierKeyOf(q))) = 1
    /\ ~OnlyUrlSuspect(app, SupplierKeyOf(q))
    /\ cooldown[SupplierKeyOf(q)] <= now
    /\ is_available(breaker[q], now)
    /\ \A q2 \in QueuedAt(app, SupplierKeyOf(q)) :
          extract_api_key_value(q2, app) = extract_api_key_value(q, app)
              => q2 = q

\* the call returned no provider of supplier k and every usable key of the
\* other suppliers
OthersReturned(app, k) ==
    /\ \A i \in DOMAIN hist'.chain : SupplierKeyOf(hist'.chain[i]) # k
    /\ \A q \in QueuedOf(store, app) :
          (SupplierKeyOf(q) # k /\ UsableKey(app, q)) =>
              q \in SeqToSet(hist'.chain)

\* C17: a select_providers call with failover enabled and no test override
\* in force (an override confines the call to its own supplier) that finds the
\* only URL of a supplier suspect leaves the supplier in a cooldown, 20 s from
\* now unless it is still cooling down from an earlier call, returns none of
\* its providers and returns the usable keys of the other suppliers and tiers.
C17_SuspectSupplierCoolsDown ==
    [][\A app \in Apps :
          (FailoverSelectStep(app) /\ ~OverrideActive(app)) =>
              \A k \in QueuedSupplierKeys(app) :
                  OnlyUrlSuspect(app, k) =>
                      /\ cooldown'[k] =
                            IF cooldown[k] > now THEN cooldown[k] ELSE now + 20
                      /\ OthersReturned(app, k)]_vars

\* S2: a and b share the one URL of anyrouter, which is suspect; the call
\* put anyrouter into a 20 s cooldown and returned c alone
C17_Witness ==
    /\ hist.op = "select" /\ hist.chain = <<"c">> /\ hist.overrides = 0
    /\ store.queue = {"a", "b", "c"}
    /\ suspect[SuspectKeyOf("b")] > now
    /\ cooldown[SupplierKeyOf("b")] = now + 20
    /\ currentUrl[SupplierKeyOf("b")] = None

\* C18: a step that removes or replaces the current URL of a supplier either
\* leaves that URL with a suspect mark in force or is the set_test_override
\* call for that supplier.
C18_CurrentUrlClearedOnlyWhenSuspect ==
    [][\A k \in SupplierKeys :
          (currentUrl[k] # None /\ currentUrl'[k] # currentUrl[k]) =>
              \/ suspect'[suspect_key(k[1], k[3], currentUrl[k])] > now
              \/ /\ hist'.op = "override"
                 /\ testOverride'.app = k[1]
                 /\ testOverride'.priority = k[2]
                 /\ testOverride'.supplier = k[3]]_vars

\* anyrouter's current URL was U3; a timeout recorded for a, whose URL is the
\* other one, removed it although U3 has no suspect mark
C18_OtherUrlSuspectReached ==
    /\ hist.op = "record" /\ hist.overrides = 0
    /\ "d" \in hist.base["claude"]
    /\ suspect[SuspectKeyOf("a")] > now
    /\ suspect[SuspectKeyOf("d")] = 0
    /\ currentUrl[SupplierKeyOf("d")] = None

\* the preferred URLs of supplier k: default list, baseUrlPriority,
\* BASE_URL_PRIORITY
PreferredOfKey(app, k) ==
    SeqToSet(PreferredUrls(k[3], FilterSeq(StoreOrder, QueuedAt(app, k))))

\* u has a cached result that is better than the cached result of p
BetterCached(lat, app, k, u, p) ==
    /\ lat[url_latency_key(app, k[2], k[3], u)] # NoLat
    /\ lat[url_latency_key(app, k[2], k[3], u)]
           < lat[url_latency_key(app, k[2], k[3], p)]

\* C19: a select_providers call does not make a preferred URL of a supplier
\* with several URLs the current URL when that URL has only a
\* connectivity-only result (cached latency >= 30000 ms) while another URL of
\* the supplier, not suspect, has a better cached result.
C19_ConnectivityOnlyPreferredNotPinned ==
    [][\A app \in Apps :
          FailoverSelectStep(app) =>
              \A k \in QueuedSupplierKeys(app) :
                  \A p \in PreferredOfKey(app, k) \cap UrlsOfKey(app, k) :
                      (/\ Cardinality(UrlsOfKey(app, k)) > 1
                       /\ currentUrl[k] # p /\ currentUrl'[k] = p
                       /\ urlLat'[url_latency_key(app, k[2], k[3], p)]
                              >= CONNECTIVITY_PENALTY_MS) =>
                          \A u \in UrlsOfKey(app, k) \ {p} :
                              \/ suspect'[suspect_key(app, k[3], u)] > now
                              \/ ~BetterCached(urlLat', app, k, u, p)]_vars

\* anyrouter.top answered the connectivity probe only, U3 the full chain; the
\* call made anyrouter.top the current URL of anyrouter
C19_PinnedOverFullChainOkReached ==
    /\ hist.op = "select" /\ hist.overrides = 0
    /\ currentUrl[SupplierKeyOf("a")] = "https://anyrouter.top"
    /\ urlLat[url_latency_key("claude", 1, "anyrouter", "https://anyrouter.top")]
           = 50 + CONNECTIVITY_PENALTY_MS
    /\ urlLat[url_latency_key("claude", 1, "anyrouter", "U3")] = 100
    /\ suspect[SuspectKeyOf("d")] = 0

\* URL u of supplier key k is not suspect and its cached result is full-chain OK
FullChainOkUrl(lat, susp, app, k, u) ==
    /\ susp[suspect_key(app, k[3], u)] <= now
    /\ IsFullChainOkLatency(lat[url_latency_key(app, k[2], k[3], u)])

\* C34: when a supplier has a non-suspect URL with a full-chain OK result, the
\* URL a select_providers call makes current for the supplier has a
\* full-chain OK result.
C34_CurrentUrlFullChainOk ==
    [][\A app \in Apps :
          FailoverSelectStep(app) =>
              \A k \in QueuedSupplierKeys(app) :
                  (/\ currentUrl'[k] # None
                   /\ currentUrl'[k] # currentUrl[k]
                   /\ \E u \in UrlsOfKey(app, k) :
                         FullChainOkUrl(urlLat', suspect', app, k, u))
                      => IsFullChainOkLatency(
                             urlLat'[url_latency_key(app, k[2], k[3],
                                                     currentUrl'[k])])]_vars

\* the chain of the call runs over https://anyrouter.top, which answered the
\* connectivity probe only, while U3 is full-chain OK and not suspect
C34_FallbackUrlChosenReached ==
    /\ hist.op = "select" /\ hist.chain = <<"a", "c">>
    /\ currentUrl[SupplierKeyOf("a")] = "https://anyrouter.top"
    /\ ~IsFullChainOkLatency(
           urlLat[url_latency_key("claude", 1, "anyrouter",
                                  "https://anyrouter.top")])
    /\ FullChainOkUrl(urlLat, suspect, "claude", SupplierKeyOf("d"), "U3")

\* an upstream status error was recorded for a: no suspect mark, and the
\* current URL of anyrouter is still there
C16_StatusErrorReached ==
    /\ hist.op = "record" /\ hist.overrides = 0
    /\ breaker["a"].state = "Open"
    /\ \A k \in SuspectKeys : suspect[k] = 0
    /\ currentUrl[SupplierKeyOf("a")] # None

(***************************************************************************)
(* Properties of select_providers (specification Spec).                    *)
(***************************************************************************)
SelectDone == hist.op = "select"

NonDecreasingTiers(chain) ==
    \A i, j \in 1..Len(chain) :
        i < j => SortIndexOrDefault(chain[i]) <= SortIndexOrDefault(chain[j])

\* C1: select_providers never consumes a HalfOpen permit: whatever state a
\* provider's breaker is in, a select_providers step leaves the breaker such
\* that allow_request answers, and acts, exactly as it would have before it.
C1_SelectConsumesNoPermit ==
    [][hist'.op = "select" =>
          \A p \in ProviderIds :
              allow_request(breaker'[p], now') = allow_request(breaker[p], now)]_vars

\* select_providers returned a provider whose breaker is HalfOpen with a free
\* permit
C1_Witness ==
    /\ SelectDone /\ hist.ok
    /\ \E p \in SeqToSet(hist.chain) :
          breaker[p].state = "HalfOpen" /\ breaker[p].permits < HalfOpenBudget

\* select_providers returned a provider whose breaker is Open with the timeout
\* elapsed, and left it Open
C1_OpenElapsedReached ==
    /\ SelectDone /\ hist.ok
    /\ \E p \in SeqToSet(hist.chain) :
          breaker[p].state = "Open" /\ now >= breaker[p].until

\* every queued provider of app at this tier has a breaker that is_available
\* reports as unavailable now
TierUnavailable(app, tier) ==
    /\ \E p \in QueuedOf(store, app) : SortIndexOrDefault(p) = tier
    /\ \A p \in QueuedOf(store, app) :
          SortIndexOrDefault(p) = tier => ~is_available(breaker[p], now)

\* C20: in a select_providers call with failover enabled, a tier all of whose
\* keys have an unavailable breaker contributes no provider and the usable
\* keys of the later tiers are still returned; every provider of the chain
\* had an available breaker when the call was made; and the active priority
\* level recorded is the tier of the chain's head, the smallest tier among
\* the providers returned.
C20_UnavailableTierSkipped ==
    [][\A app \in Apps :
          FailoverSelectStep(app) =>
              /\ \A p \in SeqToSet(hist'.chain) : is_available(breaker[p], now)
              /\ \A t \in Tiers :
                    TierUnavailable(app, t) =>
                        /\ TierMembers(hist'.chain, t) = {}
                        /\ \A q \in QueuedOf(store, app) :
                              (SortIndexOrDefault(q) > t /\ UsableKey(app, q))
                                  => q \in SeqToSet(hist'.chain)
              /\ hist'.ok =>
                    /\ activeLevel'[app] = SortIndexOrDefault(hist'.chain[1])
                    /\ \A p \in SeqToSet(hist'.chain) :
                          activeLevel'[app] <= SortIndexOrDefault(p)
              /\ ~hist'.ok => activeLevel'[app] = activeLevel[app]]_vars

\* both keys of tier 1 have an Open breaker whose timeout has not elapsed; the
\* call returned c alone and recorded tier 2 as the active level
C20_Witness ==
    /\ SelectDone /\ hist.ok /\ hist.app = "claude"
    /\ store.queue = {"a", "b", "c"}
    /\ breaker["a"].state = "Open" /\ now < breaker["a"].until
    /\ breaker["b"].state = "Open" /\ now < breaker["b"].until
    /\ hist.chain = <<"c">>
    /\ activeLevel["claude"] = 2

\* C6: with failover enabled, for a tier whose available candidates have been
\* the same set in every call so far, call number k (from 0) returns that
\* tier's candidates sorted by provider id and rotated left by k mod n, and the
\* tiers follow one another in ascending order.
C6_KeyRoundRobin ==
    (SelectDone /\ store.failover[hist.app]) =>
        LET app == hist.app
            k   == hist.calls[app] - 1
        IN  /\ NonDecreasingTiers(hist.chain)
            /\ \A t \in hist.stable[app] :
                  LET cands == {p \in hist.base[app] : SortIndexOrDefault(p) = t}
                      n     == Cardinality(cands)
                  IN  FilterSeq(hist.chain, TierMembers(hist.chain, t)) =
                          RotateLeft(SortById(cands), k % n)

\* the second of two calls over tier-1 keys {a, b} and tier-2 key {c}
C6_Witness ==
    /\ SelectDone /\ store.failover[hist.app]
    /\ hist.calls[hist.app] = 2
    /\ hist.stable[hist.app] = {1, 2}
    /\ hist.chain = <<"b", "a", "c">>

\* the third call over three keys of one tier
C6_ThirdCallReached ==
    /\ SelectDone /\ hist.calls[hist.app] = 3
    /\ hist.stable[hist.app] = {1}
    /\ hist.chain = <<"f", "a", "b">>

CurrentChoices == {None, "a", "c", "ghost"}

\* C7: with failover enabled the chain holds only providers of the failover
\* queue, in non-decreasing sort_index (a missing one counting as 999999), and
\* the result of select_providers is the same whatever the app's current
\* provider is.
C7_QueueOnlyInTierOrder ==
    /\ (SelectDone /\ store.failover[hist.app]) =>
          /\ SeqToSet(hist.chain) \subseteq
                 {p \in store.queue : Providers[p].app = hist.app}
          /\ NonDecreasingTiers(hist.chain)
    /\ \A app \in store.apps :
          store.failover[app] =>
              \A oracle \in Oracles(store, app, now) :
                  LET res == select_providers(RouterState, store, app, now,
                                              oracle)
                  IN  \A cur \in CurrentChoices :
                          select_providers(RouterState,
                                           [store EXCEPT !.current[app] = cur],
                                           app, now, oracle) = res

\* a chain of two tiers, the second of a provider without sort_index, returned
\* while the current provider is outside the queue
C7_Witness ==
    /\ SelectDone /\ store.failover[hist.app]
    /\ hist.chain = <<"c", "e">>
    /\ store.current[hist.app] = "b"

\* C8: with failover disabled select_providers returns exactly the app's
\* current provider, whatever its breaker state and whatever the failover
\* queue holds; without a current provider, or when it no longer exists, it
\* returns an error.
C8_CurrentProviderOnly ==
    (SelectDone /\ ~store.failover[hist.app]) =>
        LET cur == store.current[hist.app] IN
        IF cur \in ProviderIds /\ Providers[cur].app = hist.app
        THEN hist.ok /\ hist.chain = <<cur>>
        ELSE ~hist.ok /\ hist.chain = <<>>

\* the current provider, outside the queue and with its breaker Open, returned
C8_Witness ==
    /\ SelectDone /\ ~store.failover[hist.app]
    /\ hist.ok
    /\ hist.chain = <<store.current[hist.app]>>
    /\ store.current[hist.app] \notin store.queue
    /\ breaker[store.current[hist.app]].state = "Open"
    /\ now < breaker[store.current[hist.app]].until

\* the error for a current provider that no longer exists
C8_GhostReached ==
    SelectDone /\ ~hist.ok /\ store.current[hist.app] = "ghost"

(***************************************************************************)
(* RequestForwarder::forward_with_retry, one task per inbound request.     *)
(* A task yields at the upstream send; the handler selects the chain and   *)
(* hands it to forward_with_retry (section 2, data flow).                  *)
(***************************************************************************)
FwdProbeKinds == {[k |-> "OK", ms |-> 100], [k |-> "FAIL", ms |-> 0]}

\* a forwarder that records every outcome, test traffic included
RecordAlways(is_startup_test) == TRUE

\* "if !is_startup_test" in front of record_result
RecordGuard(is_startup_test) == ~is_startup_test

\* "if !is_startup_test" in front of persist_last_request_summary
PersistGuard(is_startup_test) == ~is_startup_test

\* a walk of one pass per tier whatever max_retries is
one_attempt_per_priority(st) == 1

max_attempts_per_priority(st) ==
    IF st.max_retries > 1 THEN st.max_retries ELSE 1

\* by_priority: the providers of the tier the walk is in, in chain order
Level(q) ==
    FilterSeq(q.chain, {p \in SeqToSet(q.chain) :
                           SortIndexOrDefault(p) = TierList(q.chain)[q.ti]})

rounds_per_priority(q, st) ==
    IF q.test THEN 1 ELSE max_attempts_per_priority(st)

\* the loops of the tier walk after one provider: next provider, next round
\* (unless the breakers skipped the whole tier), next tier, or the end
AfterProvider(q0, st) ==
    LET q   == [q0 EXCEPT !.pc = "walk", !.prov = None, !.admit = "none",
                          !.at = None]
        lvl == Level(q)
    IN  IF q.pi < Len(lvl) THEN [q EXCEPT !.pi = @ + 1]
        ELSE IF q.skipped < Len(lvl) /\ q.round + 1 < rounds_per_priority(q, st)
             THEN [q EXCEPT !.round = @ + 1, !.pi = 1, !.skipped = 0]
        ELSE IF q.ti < Len(TierList(q.chain))
             THEN [q EXCEPT !.ti = @ + 1, !.round = 0, !.pi = 1, !.skipped = 0]
        ELSE IdleReq

\* after the tier loop: both exits (no provider was attempted, every provider
\* failed) count one failed request; a walk that goes on counts nothing
WalkEnd(q) == IF q = IdleReq THEN "failed" ELSE "none"

\* build_last_request_summary: the fingerprint of the request in hand, here
\* whether forward_with_retry took it for test traffic
build_last_request_summary(q) == IF q.test THEN "test" ELSE "real"

\* status.last_requests.insert(app_type_str, last_summary)
InsertLastRequest(ls, q) == [ls EXCEPT ![q.app] = build_last_request_summary(q)]

\* persist_last_request_summary: the setting records whether the request it
\* was built from had been selected under a test override
persist_last_request_summary(ps, q) ==
    [ps EXCEPT ![q.app] = IF q.under THEN "test" ELSE "real"]

ForwarderHistory(h, op, test, called, p, delta) ==
    [h EXCEPT !.op = op, !.app = None, !.ok = FALSE, !.chain = <<>>,
              !.test = test, !.called = called,
              !.balance = IF p = None THEN @ ELSE [@ EXCEPT ![p] = @ + delta]]

\* the handler: select_providers for the request's app, in runs of at most
\* max requests
ReqSelectUpTo(r, app, max) ==
    /\ req[r].pc = "idle"
    /\ \A r2 \in TaskSlots : ReqRank[r2] < ReqRank[r] => req[r2].pc # "idle"
    /\ app \in store.apps
    /\ hist.issued < max
    /\ \E oracle \in OraclesOver(FwdProbeKinds, store, app, now) :
          LET under == get_active_test_override(RouterState, app, now).ov
                           # NoOverride
              res   == select_providers(RouterState, store, app, now, oracle)
          IN  /\ SetRouterState(res.rs)
              /\ req' = [req EXCEPT ![r] =
                            IF res.ok
                            THEN [IdleReq EXCEPT !.pc = "selected", !.app = app,
                                                 !.chain = res.chain,
                                                 !.under = under]
                            ELSE IdleReq]
              /\ hist' = [ForwarderHistory(hist, "request", under, {}, None, 0)
                             EXCEPT !.issued = @ + 1]
    /\ UNCHANGED <<status, stats, wb, resolverVars, now, store, persisted, bench,
                   benchLock>>

ReqSelect(r, app) == ReqSelectUpTo(r, app, MaxRequests)

\* forward_with_retry up to the first provider: is_startup_test, and for a
\* chain of one provider the persist and the first send
ReqStart(r) ==
    /\ req[r].pc = "selected"
    /\ LET q   == req[r]
           got == has_active_test_override(RouterState, q.app, now)
           q1  == [q EXCEPT !.test = got.yes, !.bypass = (Len(q.chain) = 1)]
       IN  /\ SetRouterState(got.rs)
           /\ IF q1.bypass
              THEN /\ req' = [req EXCEPT ![r] =
                         [q1 EXCEPT !.pc = "sent", !.prov = q.chain[1],
                                    !.at = breaker[q.chain[1]].state,
                                    !.tries = IF got.yes THEN 0
                                              ELSE store.max_retries]]
                   /\ status' = InsertLastRequest(status, q1)
                   /\ stats' = CountRequest(stats)
                   /\ persisted' = IF PersistGuard(got.yes)
                                   THEN persist_last_request_summary(persisted, q1)
                                   ELSE persisted
              ELSE /\ req' = [req EXCEPT ![r] =
                         [q1 EXCEPT !.pc = "walk", !.ti = 1, !.pi = 1]]
                   /\ status' = status
                   /\ stats' = stats
                   /\ persisted' = persisted
           /\ hist' = ForwarderHistory(hist, "start", got.yes, {}, None, 0)
    /\ UNCHANGED <<wb, resolverVars, now, store, bench, benchLock>>

\* tier walk, one provider: the breaker's permit, then persist and send
ReqDispatch(r) ==
    /\ req[r].pc = "walk"
    /\ LET q      == req[r]
           p      == Level(q)[q.pi]
           permit == IF q.test
                     THEN [rs |-> RouterState, allowed |-> TRUE,
                           used_half_open_permit |-> FALSE]
                     ELSE allow_provider_request(RouterState, p, now)
           called == IF q.test THEN {} ELSE {"allow_request"}
       IN  /\ SetRouterState(permit.rs)
           /\ IF ~permit.allowed
              THEN /\ req' = [req EXCEPT ![r] =
                         AfterProvider([q EXCEPT !.skipped = @ + 1], store)]
                   /\ status' = status
                   /\ stats' = Counted(stats, WalkEnd(
                         AfterProvider([q EXCEPT !.skipped = @ + 1], store)))
                   /\ persisted' = persisted
                   /\ hist' = ForwarderHistory(hist, "skip", q.test, called,
                                               None, 0)
              ELSE /\ req' = [req EXCEPT ![r] =
                         [q EXCEPT !.pc = "sent", !.prov = p,
                                   !.at = breaker[p].state,
                                   !.attempted = @ + 1,
                                   !.admit =
                                       IF q.test THEN "none"
                                       ELSE IF permit.used_half_open_permit
                                            THEN "permit" ELSE "closed"]]
                   /\ status' = InsertLastRequest(status, q)
                   /\ stats' = CountRequest(stats)
                   /\ persisted' = IF PersistGuard(q.test)
                                   THEN persist_last_request_summary(persisted, q)
                                   ELSE persisted
                   /\ hist' = ForwarderHistory(hist, "dispatch", q.test, called,
                                               p, IF q.test THEN 0 ELSE 1)
    /\ UNCHANGED <<wb, resolverVars, now, store, bench, benchLock>>

\* what one call of forward() meets: first is the provider's auth missing
\* ("noauth"), a send error ("transport"), a 2xx, a model-unavailable status
\* ("unavailable") or another non-2xx ("status"); pending is whether the model
\* resolver returned a writeback; retry is the answer to the retry with the
\* next-best model ("none": the resolver found no other model), retry_wb
\* whether that resolution returned a writeback
Reply(first, pending, retry, retry_wb) ==
    [first |-> first, pending |-> pending, retry |-> retry,
     retry_wb |-> retry_wb, code |-> 500]

\* a non-2xx answer with the given status code
StatusReply(code) ==
    [Reply("status", FALSE, "none", FALSE) EXCEPT !.code = code]

\* the Claude retry on the same provider after a model-unavailable status
ForwardRetry(up) ==
    CASE up.retry = "transport" -> [err |-> TimeoutError, writeback |-> FALSE]
      [] up.retry = "2xx"       -> [err |-> NoError, writeback |-> up.retry_wb]
      [] OTHER -> [err |-> UpstreamError500, writeback |-> FALSE]

\* RequestForwarder::forward: the error it returns (NoError for Ok) and
\* whether it spawned writeback_provider_env
forward(app, up) ==
    CASE up.first = "noauth"    -> [err |-> AuthError, writeback |-> FALSE]
      [] up.first = "transport" -> [err |-> TimeoutError, writeback |-> FALSE]
      [] up.first = "connect" ->
            [err |-> ForwardFailedError, writeback |-> FALSE]
      [] up.first = "2xx" ->
            [err |-> NoError,
             writeback |-> up.pending /\ app \in {"claude", "codex"}]
      [] OTHER ->
            IF app = "claude" /\ up.first = "unavailable" /\ up.retry # "none"
            THEN ForwardRetry(up)
            ELSE [err |-> UpstreamError(up.code), writeback |-> FALSE]

\* tokio::spawn(router.writeback_provider_env(..)) for the send of request q
SpawnWriteback(tasks, q) ==
    tasks \cup {[provider |-> q.prov, test |-> q.test]}

\* upstream answers of the forwarder runs: Ok, a timeout, missing auth
FwdReplies ==
    {Reply("2xx", FALSE, "none", FALSE),
     Reply("transport", FALSE, "none", FALSE),
     Reply("noauth", FALSE, "none", FALSE)}

\* a walk that goes on after the first Retryable error of a test request
FirstErrorIgnored(is_startup_test) == FALSE

\* "if is_startup_test { ... return Err(..) }" in the Retryable arm of the walk
FirstErrorStops(is_startup_test) == is_startup_test

\* what forward_with_retry does with the outcome of the send in flight
Outcome(q, st, rs, err, t) ==
    LET p       == q.prov
        success == err = NoError
        rec     == RecordGuard(q.test)
        rs1     == IF rec
                   THEN record_result(rs, p, q.app, q.admit = "permit", success,
                                      err, t)
                   ELSE rs
        told    == maybe_record_startup_test_from_forwarder(rs1, q.app, p,
                                                            success, t)
        cat     == IF success THEN None ELSE categorize_proxy_error(err)
    IN  IF q.bypass /\ ~success /\ ~q.test /\ should_retry_same_provider(err)
           /\ q.tries > 0
        THEN \* forward_with_provider_retry sends again
             [rs |-> rs, req |-> [q EXCEPT !.tries = @ - 1], recorded |-> FALSE,
              counted |-> "none"]
        ELSE IF success
        THEN [rs |-> told, req |-> IdleReq, recorded |-> rec,
              counted |-> "success"]
        ELSE IF q.bypass
        THEN [rs |-> IF q.test THEN told ELSE rs1, req |-> IdleReq,
              recorded |-> rec, counted |-> "failed"]
        ELSE IF cat = "Retryable"
        THEN IF FirstErrorStops(q.test)
             THEN [rs |-> told, req |-> IdleReq, recorded |-> rec,
                   counted |-> "none"]
             ELSE [rs |-> rs1, req |-> AfterProvider(q, st), recorded |-> rec,
                   counted |-> WalkEnd(AfterProvider(q, st))]
        ELSE [rs |-> told, req |-> IdleReq, recorded |-> rec,
              counted |-> "failed"]

\* the upstream answers the send in flight
ReqComplete(r, up) ==
    /\ req[r].pc = "sent"
    /\ LET q   == req[r]
           fwd == forward(q.app, up)
           out == Outcome(q, store, RouterState, fwd.err, now)
       IN  /\ SetRouterState(out.rs)
           /\ req' = [req EXCEPT ![r] = out.req]
           /\ stats' = Counted(stats, out.counted)
           /\ wb' = IF fwd.writeback THEN SpawnWriteback(wb, q) ELSE wb
           /\ hist' = [ForwarderHistory(hist, "complete", q.test,
                           IF out.recorded THEN {"record_result"} ELSE {},
                           q.prov, IF out.recorded THEN -1 ELSE 0)
                          EXCEPT !.ok = (fwd.err = NoError)]
    /\ UNCHANGED <<status, resolverVars, now, store, persisted, bench,
                   benchLock>>

\* the client goes away while the send is in flight: the task is dropped
ReqCancel(r) ==
    /\ req[r].pc = "sent"
    /\ req' = [req EXCEPT ![r] = IdleReq]
    /\ hist' = ForwarderHistory(hist, "cancel", req[r].test, {}, None, 0)
    /\ UNCHANGED <<status, stats, wb, resolverVars, now, store, breaker, rr,
                   activeLevel, tested, urlLat,
                   cooldown, suspect, currentUrl, testOverride, testResults,
                   persisted, bench, benchLock>>

FwdStores ==
    {StoreConfig({"claude"}, {"claude"}, {"a", "b"}, None, 2),
     StoreConfig({"claude"}, {"claude"}, {"a", "d"}, None, 0),
     StoreConfig({"claude"}, {"claude"}, {"a", "c"}, None, 0),
     StoreConfig({"claude"}, {}, {"a"}, "a", 1)}

InitFwd == InitWith(FwdStores)

NextFwd ==
    \/ \E r \in Reqs, app \in Apps : ReqSelect(r, app)
    \/ \E r \in Reqs : ReqStart(r)
    \/ \E r \in Reqs : ReqDispatch(r)
    \/ \E r \in Reqs, up \in FwdReplies : ReqComplete(r, up)
    \/ \E app \in Apps, key \in SupplierKeys, ttl \in TtlChoices :
          SetTestOverride(app, key, "run1", ttl)
    \/ Tick

SpecFwd == InitFwd /\ [][NextFwd]_vars

NextCancel ==
    \/ NextFwd
    \/ \E r \in Reqs : ReqCancel(r)

SpecCancel == InitFwd /\ [][NextCancel]_vars

\* forward() with every answer of the upstream and of the model resolver
WbReplies ==
    {Reply("2xx", pending, "none", FALSE) : pending \in BOOLEAN}
    \cup {Reply(first, TRUE, "none", FALSE) :
             first \in {"transport", "status", "noauth", "unavailable"}}
    \cup {Reply("unavailable", TRUE, retry, FALSE) :
             retry \in {"2xx", "status", "transport"}}
    \cup {Reply("unavailable", TRUE, "2xx", TRUE)}

WbStores ==
    {StoreConfig({"claude"}, {}, {"a"}, "a", 1),
     StoreConfig({"claude"}, {"claude"}, {"a", "c"}, None, 0),
     StoreConfig({"codex"}, {"codex"}, {"x"}, "x", 0)}

InitWb == InitWith(WbStores)

NextWb ==
    \/ \E r \in Reqs, app \in Apps : ReqSelect(r, app)
    \/ \E r \in Reqs : ReqStart(r)
    \/ \E r \in Reqs : ReqDispatch(r)
    \/ \E r \in Reqs, up \in WbReplies : ReqComplete(r, up)
    \/ \E app \in Apps, key \in SupplierKeys, ttl \in TtlChoices :
          SetTestOverride(app, key, "run1", ttl)
    \/ Tick

SpecWb == InitWb /\ [][NextWb]_vars

(***************************************************************************)
(* Properties of forward_with_retry (specifications SpecFwd, SpecCancel).  *)
(***************************************************************************)
InFlight(r) == req[r].pc \in {"walk", "sent"}

SentTo(r, p) == req[r].pc = "sent" /\ req[r].prov = p

\* C2: when no override was ever set (every request is non-test) and no
\* request is inside forward_with_retry, every provider has had as many
\* allow_request calls that answered allowed as record_result calls.
C2_AdmissionsMatchResults ==
    (hist.overrides = 0 /\ \A r \in Reqs : ~InFlight(r)) =>
        \A p \in ProviderIds : hist.balance[p] = 0

\* C3: with failover enabled and no test override ever set, the upstream
\* requests in flight to a provider whose breaker is HalfOpen, counting those
\* dispatched since the breaker left Closed, number at most the permit budget.
C3_HalfOpenProbesWithinBudget ==
    hist.overrides = 0 =>
        \A p \in ProviderIds :
            breaker[p].state = "HalfOpen" =>
                Cardinality({r \in Reqs : /\ SentTo(r, p)
                                          /\ store.failover[req[r].app]
                                          /\ req[r].at # "Closed"})
                    <= HalfOpenBudget

\* C4: a HalfOpen permit outstanding on a breaker belongs to a request whose
\* send is in flight: the permit of a cancelled request has been released.
C4_CancelledPermitReleased ==
    \A p \in ProviderIds :
        (breaker[p].state = "HalfOpen" /\ breaker[p].permits > 0) =>
            \E r \in Reqs : SentTo(r, p) /\ req[r].admit = "permit"

\* C9: every step of a request that forward_with_retry handles as test
\* traffic (is_startup_test) calls neither allow_request nor record_result and
\* leaves every breaker, the suspect marks and the suppliers' current URLs as
\* they were, whether the upstream attempt succeeded or failed.
C9_TestRequestTouchesNoBreaker ==
    [][\A r \in Reqs :
          (req'[r] # req[r] /\ (req[r].test \/ req'[r].test)) =>
              /\ hist'.called = {}
              /\ breaker' = breaker
              /\ suspect' = suspect
              /\ currentUrl' = currentUrl]_vars

\* a test request to a single provider failed and its outcome was reported
C9_Witness ==
    /\ hist.op = "complete" /\ hist.test /\ ~hist.ok
    /\ hist.called = {}
    /\ testResults["run1"].chosen_kind = "FAIL"

\* a test request of the tier walk in flight to a provider whose breaker is
\* Open
C9_OpenBypassedReached ==
    \E r \in Reqs :
        /\ req[r].pc = "sent" /\ req[r].test /\ ~req[r].bypass
        /\ breaker[req[r].prov].state = "Open"

\* C10: the persisted LastRequestSummary of an app was never built from a
\* request selected under a test override for that app.
C10_PersistedFromRealTraffic ==
    \A app \in Apps : persisted[app] # "test"

\* the benchmark of select_providers reported to the override and removed it,
\* and forward_with_retry then persisted the summary of the same request
C10_OverrideGoneReached ==
    /\ hist.op = "start" /\ ~hist.test
    /\ now = 0
    /\ testResults["run1"].chosen_kind = "OK"
    /\ \E app \in Apps : persisted[app] = "test"

\* C11: every step of a request that forward_with_retry handles as test
\* traffic (a test override is active when it is forwarded) leaves
\* ProxyStatus.last_requests as it was.
C11_TestRequestKeepsLastRequest ==
    [][\A r \in Reqs :
          (req'[r] # req[r] /\ (req[r].test \/ req'[r].test)) =>
              status' = status]_vars

\* the last_requests entry of an app was built from a test request while
\* the persisted summary was not
C11_TestFingerprintReached ==
    \E app \in Apps : status[app] = "test" /\ persisted[app] # "test"

\* C12: a step enqueues a provider-env writeback only when it completes a
\* request that is not test-override traffic with an Ok (2xx) answer.
C12_WritebackOnlyOnRealSuccess ==
    [][wb' # wb =>
          hist'.op = "complete" /\ hist'.ok /\ ~hist'.test]_vars

\* the part of C12 about failures: a step that enqueues a writeback completes
\* a send whose final answer was 2xx
WritebackOnlyOnSuccess ==
    [][wb' # wb => hist'.op = "complete" /\ hist'.ok]_vars

\* a writeback was spawned for a request forwarded as test traffic
C12_TestWritebackReached ==
    \E w \in wb : w.test

(***************************************************************************)
(* benchmark_all_suppliers, and the URL benchmarks of concurrent tasks.    *)
(* A task yields while its probe loop runs.                                *)
(***************************************************************************)
\* one supplier of benchmark_all_suppliers: skipped while in cooldown, else
\* probed, and the picked URL becomes the supplier's current URL
BenchmarkSupplier(rs, app, tier, sup, provs, t, oracle) ==
    LET cd == is_supplier_in_cooldown(rs, app, tier, sup, t) IN
    IF cd.yes THEN cd.rs
    ELSE LET d    == benchmark_urls_detailed(cd.rs, app, tier, sup, provs, t,
                                             oracle)
             pick == PickUrl(PreferredUrls(sup, provs), d.details, d.kinds)
         IN  IF pick = None THEN d.rs
             ELSE [set_supplier_current_url(d.rs, app, tier, sup, pick)
                      EXCEPT !.tested = @ \cup {supplier_key(app, tier, sup)}]

RECURSIVE BenchmarkSuppliers(_, _, _, _, _, _, _)
BenchmarkSuppliers(rs, sups, app, tier, provs, t, oracle) ==
    IF sups = <<>> THEN rs
    ELSE LET mine == FilterSeq(provs, {p \in SeqToSet(provs) :
                                         supplier_name(p) = Head(sups)})
         IN  BenchmarkSuppliers(
                 BenchmarkSupplier(rs, app, tier, Head(sups), mine, t, oracle),
                 Tail(sups), app, tier, provs, t, oracle)

RECURSIVE BenchmarkTiers(_, _, _, _, _, _)
BenchmarkTiers(rs, tiers, app, fp, t, oracle) ==
    IF tiers = <<>> THEN rs
    ELSE LET lvl  == FilterSeq(fp, {p \in SeqToSet(fp) :
                                      /\ SortIndexOrDefault(p) = Head(tiers)
                                      /\ extract_base_url(p, app) # None})
             sups == Dedup([i \in 1..Len(lvl) |-> supplier_name(lvl[i])])
         IN  BenchmarkTiers(
                 BenchmarkSuppliers(rs, sups, app, Head(tiers), lvl, t, oracle),
                 Tail(tiers), app, fp, t, oracle)

\* only_priority and only_supplier not given
benchmark_all_suppliers(rs, st, app, t, oracle) ==
    LET fp == get_failover_providers(st, app) IN
    BenchmarkTiers(rs, TierList(fp), app, fp, t, oracle)

QueuedKeys(st, app) ==
    {supplier_key(app, SortIndexOrDefault(p), supplier_name(p)) :
        p \in QueuedOf(st, app)}

KeyProviders(st, app, k) ==
    FilterSeq(get_failover_providers(st, app),
              {p \in QueuedOf(st, app) : /\ SortIndexOrDefault(p) = k[2]
                                         /\ supplier_name(p) = k[3]
                                         /\ extract_base_url(p, app) # None})

\* what the probes of one benchmark run can answer
BenchOracles(st, app) ==
    LET urls == {extract_base_url(p, app) : p \in QueuedOf(st, app)} \ {None}
    IN  OraclesFor(ProbeKinds, urls, urls)

BenchHistory(h, op, n) ==
    [h EXCEPT !.op = op, !.app = None, !.ok = FALSE, !.chain = <<>>,
              !.test = FALSE, !.called = {}, !.runs = @ + n]

\* select_providers finds no URL to keep for supplier k, takes the supplier's
\* benchmark lock and starts the probe loop
SelectBenchmarkBegin(t, app) ==
    /\ bench[t].pc = "idle"
    /\ app \in store.apps
    /\ hist.runs < MaxBenchmarks
    /\ \E k \in QueuedKeys(store, app) :
          /\ \E oracle \in BenchOracles(store, app) :
                select_providers(RouterState, store, app, now, oracle).rs.probed
                    = {k}
          /\ benchLock[k] = None
          /\ benchLock' = [benchLock EXCEPT ![k] = t]
          /\ bench' = [bench EXCEPT ![t] =
                          [pc |-> "probing", kind |-> "select", app |-> app,
                           key |-> k]]
    /\ hist' = BenchHistory(hist, "select_begin", 1)
    /\ UNCHANGED <<status, stats, wb, resolverVars, now, store, breaker, rr,
                   activeLevel, tested, urlLat,
                   cooldown, suspect, currentUrl, testOverride, testResults,
                   persisted, req>>

\* the probes answer: the results are cached and ranked, the call goes on to
\* build its chain, and the lock guard is dropped
SelectBenchmarkEnd(t) ==
    /\ bench[t].pc = "probing"
    /\ bench[t].kind = "select"
    /\ LET app == bench[t].app
           k   == bench[t].key
       IN  \E oracle \in BenchOracles(store, app) :
              LET b   == RankAndPickWith(TRUE, RouterState, app, k[2], k[3],
                                         KeyProviders(store, app, k), now,
                                         oracle)
                  res == select_providers(b.rs, store, app, now, oracle)
              IN  /\ SetRouterState(res.rs)
                  /\ benchLock' = [benchLock EXCEPT ![k] = None]
    /\ bench' = [bench EXCEPT ![t] = IdleTask]
    /\ hist' = BenchHistory(hist, "select_end", 0)
    /\ UNCHANGED <<status, stats, wb, resolverVars, now, store, persisted, req>>

\* benchmark_all_suppliers reaches supplier k, which is not in cooldown, and
\* starts the probe loop
AllBenchmarkBegin(t, app) ==
    /\ bench[t].pc = "idle"
    /\ app \in store.apps
    /\ hist.runs < MaxBenchmarks
    /\ \E k \in QueuedKeys(store, app) :
          /\ ~is_supplier_in_cooldown(RouterState, app, k[2], k[3], now).yes
          /\ bench' = [bench EXCEPT ![t] =
                          [pc |-> "probing", kind |-> "all", app |-> app,
                           key |-> k]]
    /\ hist' = BenchHistory(hist, "all_begin", 1)
    /\ UNCHANGED <<status, stats, wb, resolverVars, now, store, breaker, rr,
                   activeLevel, tested, urlLat,
                   cooldown, suspect, currentUrl, testOverride, testResults,
                   persisted, req, benchLock>>

AllBenchmarkEnd(t) ==
    /\ bench[t].pc = "probing"
    /\ bench[t].kind = "all"
    /\ \E oracle \in BenchOracles(store, bench[t].app) :
          SetRouterState(benchmark_all_suppliers(RouterState, store,
                                                 bench[t].app, now, oracle))
    /\ bench' = [bench EXCEPT ![t] = IdleTask]
    /\ hist' = BenchHistory(hist, "all_end", 0)
    /\ UNCHANGED <<status, stats, wb, resolverVars, now, store, persisted, req,
                   benchLock>>

\* one supplier per configuration: a call probes one supplier key
BenchStores ==
    {StoreConfig({"claude"}, {"claude"}, {"a", "d"}, None, 0),
     StoreConfig({"codex"}, {"codex"}, {"x"}, None, 0)}

InitBench == InitWith(BenchStores)

NextBench ==
    \/ \E t \in Tasks, app \in Apps : SelectBenchmarkBegin(t, app)
    \/ \E t \in Tasks : SelectBenchmarkEnd(t)
    \/ \E t \in Tasks, app \in Apps : AllBenchmarkBegin(t, app)
    \/ \E t \in Tasks : AllBenchmarkEnd(t)
    \/ Tick

SpecBench == InitBench /\ [][NextBench]_vars

(***************************************************************************)
(* Properties of the URL benchmarks (specification SpecBench).             *)
(***************************************************************************)
Probing(k) == {t \in Tasks : bench[t].pc = "probing" /\ bench[t].key = k}

\* C5: for every (app, tier, supplier) at most one task is inside the probe
\* loop of benchmark_urls_detailed at any instant.
C5_OneBenchmarkPerSupplier ==
    \A k \in SupplierKeys : Cardinality(Probing(k)) <= 1

\* the supplier benchmark lock does keep apart the probe loops that
\* select_providers starts
SelectBenchmarksExclusive ==
    \A k \in SupplierKeys :
        Cardinality({t \in Probing(k) : bench[t].kind = "select"}) <= 1

(***************************************************************************)
(* The Codex alias map (openai_model_resolver.rs).  A key is a model id as *)
(* written in the env or in a request: id is the position of its sanitized *)
(* and normalized form in the order of String::cmp, raw tells that it is   *)
(* written differently (other case, blanks, a date suffix).  The env value *)
(* CC_SWITCH_CODEX_MODEL_ALIASES is the JSON object of the map.            *)
(***************************************************************************)
AliasKey(id, raw) == [id |-> id, raw |-> raw]

\* normalize_token(sanitize_openai_model_name(k))
CanonicalKey(k) == [k EXCEPT !.raw = FALSE]

AliasValues == {"gpt-5.2", "gpt-5.2-codex", ""}

\* out.insert(key, value) on a HashMap
MapInsert(m, k, v) ==
    [x \in DOMAIN m \cup {k} |-> IF x = k THEN v ELSE m[x]]

\* read_alias_map: keys canonical, entries with an empty value skipped; of
\* two spellings of one key the HashMap keeps one
ReadAliasEntries(raw) ==
    {e \in {[k |-> CanonicalKey(k), v |-> raw[k]] : k \in DOMAIN raw} :
        e.v # ""}

read_alias_map(raw) ==
    LET es == ReadAliasEntries(raw) IN
    [k \in {e.k : e \in es} |-> (CHOOSE e \in es : e.k = k).v]

\* a merge that never drops an entry
drop_none(len) == 0

\* drop_n = keys.len() - 64 when keys.len() > 64
drop_n(len) == IF len > ALIAS_CAP THEN len - ALIAS_CAP ELSE 0

\* keys.sort(); keys.into_iter().take(n): the n smallest keys
SmallestKeys(keys, n) ==
    {k \in keys : Cardinality({j \in keys : j.id < k.id}) < n}

RemoveKeys(m, gone) == [k \in DOMAIN m \ gone |-> m[k]]

TruncateAliases(m) ==
    RemoveKeys(m, SmallestKeys(DOMAIN m, drop_n(Cardinality(DOMAIN m))))

merge_alias_map(current, request_key, chosen) ==
    TruncateAliases(MapInsert(current, CanonicalKey(request_key), chosen))

\* the env of the provider before any writeback: a run of keys, the last of
\* them possibly in a second spelling too, or with an empty value
EnvRun(lo, hi, twice, empty) ==
    [k \in {AliasKey(i, FALSE) : i \in lo..hi}
            \cup (IF twice /\ lo <= hi THEN {AliasKey(hi, TRUE)} ELSE {}) |->
        IF empty /\ k.id = hi THEN "" ELSE "gpt-5.2"]

InitialEnvs ==
    {EnvRun(lo, hi, twice, empty) :
        lo \in {2, 3}, hi \in 1..MaxAliasKey, twice \in BOOLEAN,
        empty \in BOOLEAN}

RequestKeys ==
    {AliasKey(id, raw) : id \in {1, ALIAS_CAP, MaxAliasKey + 1},
                         raw \in BOOLEAN}

InitAlias ==
    /\ InitProxy({StoreConfig({"codex"}, {"codex"}, {"x"}, "x", 0)})
    /\ san = NoSan
    /\ modelCache = NoCache
    /\ call = NoCall
    /\ \E m \in InitialEnvs : env = [NoEnv EXCEPT !.aliases = m]

\* a writeback: the map read from the provider, merged, written to the env
AliasWriteback(request_key, chosen) ==
    /\ env.writes < MaxWritebacks
    /\ env' = [aliases |-> merge_alias_map(read_alias_map(env.aliases),
                                           request_key, chosen),
               writes  |-> env.writes + 1,
               read    |-> Cardinality(DOMAIN read_alias_map(env.aliases))]
    /\ UNCHANGED <<proxyVars, san, modelCache, call>>

NextAlias ==
    \E k \in RequestKeys, v \in AliasValues \ {""} : AliasWriteback(k, v)

SpecAlias == InitAlias /\ [][NextAlias]_vars

\* C13: the alias map a writeback has written to the provider has at most 64
\* entries, whatever the size of the map it read.
C13_AliasMapBounded ==
    env.writes > 0 => Cardinality(DOMAIN env.aliases) <= ALIAS_CAP

\* a writeback read a map of more than 64 entries and wrote one of 64
C13_Witness ==
    /\ env.writes > 0
    /\ env.read > ALIAS_CAP
    /\ Cardinality(DOMAIN env.aliases) = ALIAS_CAP

\* the merged map holds the entry under the normalized request key
HoldsEntry(m, request_key, chosen) ==
    /\ CanonicalKey(request_key) \in DOMAIN m
    /\ m[CanonicalKey(request_key)] = chosen

\* C40: the alias map returned by merge_alias_map(current, request_key,
\* chosen) holds the entry request_key -> chosen that was just inserted, also
\* when the map exceeds 64 entries and entries are dropped.
C40_MergeKeepsInsertedEntry ==
    [][\A k \in RequestKeys, v \in AliasValues \ {""} :
          AliasWriteback(k, v) => HoldsEntry(env'.aliases, k, v)]_vars

\* a writeback of a key that sorts before the 64 keys of the map it read
\* left a map of 64 entries without that key
C40_InsertedEntryDroppedReached ==
    /\ env.writes > 0
    /\ env.read = ALIAS_CAP
    /\ Cardinality(DOMAIN env.aliases) = ALIAS_CAP
    /\ AliasKey(1, FALSE) \notin DOMAIN env.aliases

(***************************************************************************)
(* sanitize_gpt_model_name (model_sanitizer.rs).  A model id is the        *)
(* sequence of its characters.                                             *)
(***************************************************************************)
Digits == {"0", "1", "2", "3", "4", "5", "6", "7", "8", "9"}

DigitVal ==
    [c \in Digits |->
        CASE c = "0" -> 0 [] c = "1" -> 1 [] c = "2" -> 2 [] c = "3" -> 3
          [] c = "4" -> 4 [] c = "5" -> 5 [] c = "6" -> 6 [] c = "7" -> 7
          [] c = "8" -> 8 [] OTHER -> 9]

Upper == [C |-> "c", G |-> "g", M |-> "m", P |-> "p", S |-> "s", T |-> "t"]

\* str::to_lowercase over the letters of the ids used
to_lowercase(s) ==
    [i \in DOMAIN s |-> IF s[i] \in DOMAIN Upper THEN Upper[s[i]] ELSE s[i]]

\* str::trim
RECURSIVE trim_start(_)
trim_start(s) ==
    IF s # <<>> /\ Head(s) = " " THEN trim_start(Tail(s)) ELSE s

RECURSIVE trim_end(_)
trim_end(s) ==
    IF s # <<>> /\ s[Len(s)] = " " THEN trim_end(SubSeq(s, 1, Len(s) - 1))
    ELSE s

trim(s) == trim_end(trim_start(s))

starts_with(s, p) == Len(s) >= Len(p) /\ SubSeq(s, 1, Len(p)) = p

\* the 1-based position of the first sep in s, 0 when there is none
FirstSep(s, sep) ==
    IF \A i \in DOMAIN s : s[i] # sep THEN 0
    ELSE CHOOSE i \in DOMAIN s :
            s[i] = sep /\ \A j \in 1..(i - 1) : s[j] # sep

\* str::split(sep).collect()
RECURSIVE split(_, _)
SplitAt(s, sep, i) ==
    IF i = 0 THEN <<s>>
    ELSE <<SubSeq(s, 1, i - 1)>> \o split(SubSeq(s, i + 1, Len(s)), sep)

split(s, sep) == SplitAt(s, sep, FirstSep(s, sep))

\* [&str]::join(sep)
RECURSIVE join(_, _)
join(parts, sep) ==
    IF parts = <<>> THEN <<>>
    ELSE IF Len(parts) = 1 THEN parts[1]
    ELSE parts[1] \o <<sep>> \o join(Tail(parts), sep)

\* str::find(pat): the 0-based byte offset of the first match, else NoIndex
find(s, pat) ==
    IF \E i \in 0..(Len(s) - Len(pat)) : SubSeq(s, i + 1, i + Len(pat)) = pat
    THEN CHOOSE i \in 0..(Len(s) - Len(pat)) :
            /\ SubSeq(s, i + 1, i + Len(pat)) = pat
            /\ \A j \in 0..(i - 1) : SubSeq(s, j + 1, j + Len(pat)) # pat
    ELSE NoIndex

is_all_digits(s) == s # <<>> /\ \A i \in DOMAIN s : s[i] \in Digits

\* s[a..b].parse::<u32>() of two digits
Parse2(s, a) == 10 * DigitVal[s[a]] + DigitVal[s[a + 1]]

is_year(s) ==
    /\ Len(s) = 4 /\ is_all_digits(s)
    /\ 100 * Parse2(s, 1) + Parse2(s, 3) \in 2000..2099

is_mm_or_dd(s) == Len(s) = 2 /\ is_all_digits(s)

is_yyyymmdd(s) ==
    Len(s) = 8 /\ is_all_digits(s) /\ starts_with(s, <<"2", "0">>)

is_mmdd_code(s) ==
    /\ Len(s) = 4 /\ is_all_digits(s)
    /\ Parse2(s, 1) \in 1..12 /\ Parse2(s, 3) \in 1..31

GptPrefix == <<"g", "p", "t", "-">>
Dash202 == <<"-", "2", "0", "2">>

\* the first part the loop returns at (1-based), 0 when it runs to its end
FirstDatePart(parts) ==
    IF \A i \in DOMAIN parts :
          ~(is_yyyymmdd(parts[i]) \/ is_year(parts[i]) \/ is_mmdd_code(parts[i]))
    THEN 0
    ELSE CHOOSE i \in DOMAIN parts :
            /\ is_yyyymmdd(parts[i]) \/ is_year(parts[i]) \/ is_mmdd_code(parts[i])
            /\ \A j \in 1..(i - 1) :
                  ~(is_yyyymmdd(parts[j]) \/ is_year(parts[j])
                    \/ is_mmdd_code(parts[j]))

\* the fallback: cut at the first "-202" of the lowercased id
CutAt202(trimmed, idx) ==
    IF idx # NoIndex THEN SubSeq(trimmed, 1, idx) ELSE trimmed

SanitizeParts(trimmed, parts, i) ==
    IF i # 0 THEN join(SubSeq(parts, 1, i - 1), "-")
    ELSE CutAt202(trimmed, find(to_lowercase(trimmed), Dash202))

SanitizeTrimmed(trimmed) ==
    IF trimmed = <<>> THEN trimmed
    ELSE IF ~starts_with(to_lowercase(trimmed), GptPrefix) THEN trimmed
    ELSE SanitizeParts(trimmed, split(trimmed, "-"),
                       FirstDatePart(split(trimmed, "-")))

sanitize_gpt_model_name(model) == SanitizeTrimmed(trim(model))

\* the ids given to the sanitizer: a prefix and up to MaxTokens tokens
IdPrefixes == {<<"g", "p", "t">>, <<"G", "P", "T">>, <<"o", "1">>}

IdTokens ==
    {<<"5">>, <<"4">>, <<"2", "0", "2", "5">>, <<"2", "0", "2", "5", "x">>,
     <<"0", "6", "1", "3">>, <<"1", "3", "4", "0">>, <<"1", "2">>,
     <<"2", "0", "2", "5", "1", "2", "1", "1">>, <<"5", " ">>}

TokenLists ==
    UNION {[1..n -> IdTokens] : n \in 0..MaxTokens}

ModelIds == {join(<<p>> \o ts, "-") : p \in IdPrefixes, ts \in TokenLists}

InitSan ==
    /\ InitProxy({StoreConfig({"codex"}, {"codex"}, {"x"}, "x", 0)})
    /\ env = NoEnv
    /\ modelCache = NoCache
    /\ call = NoCall
    /\ \E id \in ModelIds : san = [NoSan EXCEPT !.pc = "input", !.input = id]

\* a caller sanitizes the id it was given
SanitizeOnce ==
    /\ san.pc = "input"
    /\ san' = [san EXCEPT !.pc = "once",
                          !.once = sanitize_gpt_model_name(san.input)]
    /\ UNCHANGED <<proxyVars, env, modelCache, call>>

\* a later caller sanitizes the sanitized id again
SanitizeAgain ==
    /\ san.pc = "once"
    /\ san' = [san EXCEPT !.pc = "twice",
                          !.twice = sanitize_gpt_model_name(san.once)]
    /\ UNCHANGED <<proxyVars, env, modelCache, call>>

NextSan == SanitizeOnce \/ SanitizeAgain

SpecSan == InitSan /\ [][NextSan]_vars

\* C14: for an id that starts with gpt-, sanitizing the sanitized id gives
\* the sanitized id again.
C14_SanitizeIdempotent ==
    (san.pc = "twice" /\ starts_with(san.input, GptPrefix)) =>
        san.twice = san.once

\* C14, second half: an id that does not start with gpt- (in any case) is
\* returned as it was, up to the trim
NonGptUntouched ==
    (san.pc # "input" /\ ~starts_with(to_lowercase(trim(san.input)), GptPrefix))
        => san.once = trim(san.input)

\* the token loop cut gpt-2025x-0613 to gpt-2025x, the fallback cut that to gpt
C14_Dash202RemainderReached ==
    /\ san.pc = "twice"
    /\ san.input = <<"g", "p", "t", "-", "2", "0", "2", "5", "x", "-",
                     "0", "6", "1", "3">>
    /\ san.once = <<"g", "p", "t", "-", "2", "0", "2", "5", "x">>
    /\ san.twice = <<"g", "p", "t">>


(***************************************************************************)
(* resolve_openai_model_in_body (openai_model_resolver.rs) with the family *)
(* test of model_catalog.rs.  Model ids are sequences of characters; the   *)
(* alias map of the provider's env is a function from ids to ids.          *)
(***************************************************************************)
MODEL_LIST_TTL == 21600
MODEL_LIST_FAILURE_COOLDOWN == 1800
NoNum == -1                         \* Option::None of a parsed number

\* the bytes of the ids used, in ascending order
ByteOrder ==
    <<" ", "-", ".", "/", "0", "1", "2", "3", "4", "5", "6", "7", "8", "9",
      ":", "C", "G", "M", "P", "S", "T", "_", "a", "b", "c", "d", "e", "f", "g", "h", "i", "j",
      "k", "l", "m", "n", "o", "p", "q", "r", "s", "t", "u", "v", "w", "x",
      "y", "z">>

CharRank(c) == CHOOSE i \in DOMAIN ByteOrder : ByteOrder[i] = c

\* a < b on String
RECURSIVE LexLess(_, _)
LexLess(a, b) ==
    IF b = <<>> THEN FALSE
    ELSE IF a = <<>> THEN TRUE
    ELSE IF Head(a) = Head(b) THEN LexLess(Tail(a), Tail(b))
    ELSE CharRank(Head(a)) < CharRank(Head(b))

contains(s, pat) == find(s, pat) # NoIndex

ends_with(s, p) ==
    Len(s) >= Len(p) /\ SubSeq(s, Len(s) - Len(p) + 1, Len(s)) = p

normalize_token(s) == to_lowercase(trim(s))

SanitizeIfGpt(trimmed) ==
    IF trimmed = <<>> THEN trimmed
    ELSE IF starts_with(to_lowercase(trimmed), GptPrefix)
         THEN sanitize_gpt_model_name(trimmed)
         ELSE trimmed

sanitize_openai_model_name(model) == SanitizeIfGpt(trim(model))

\* the families of model_catalog.rs in the order it tests them: an id belongs
\* to the first family one of whose patterns it contains, starts with or is
FamilyTable ==
    <<[family |-> "Claude", has |-> {<<"c", "l", "a", "u", "d", "e">>}, starts |-> {}, is |-> {}],
      [family |-> "OpenAi", has |-> {},
       starts |-> {<<"g", "p", "t", "-">>, <<"o", "1">>, <<"o", "3">>, <<"o", "4">>, <<"o", "5">>}, is |-> {<<"c", "h", "a", "t", "g", "p", "t">>}],
      [family |-> "Gemini", has |-> {<<"g", "e", "m", "i", "n", "i">>}, starts |-> {}, is |-> {}],
      [family |-> "Llama", has |-> {<<"l", "l", "a", "m", "a">>, <<"m", "e", "t", "a", "-", "l", "l", "a", "m", "a">>}, starts |-> {},
       is |-> {}],
      [family |-> "Qwen", has |-> {<<"q", "w", "e", "n">>}, starts |-> {}, is |-> {}],
      [family |-> "Mistral", has |-> {<<"m", "i", "s", "t", "r", "a", "l">>, <<"m", "i", "x", "t", "r", "a", "l">>}, starts |-> {},
       is |-> {}],
      [family |-> "DeepSeek", has |-> {<<"d", "e", "e", "p", "s", "e", "e", "k">>}, starts |-> {}, is |-> {}],
      [family |-> "Grok", has |-> {<<"g", "r", "o", "k">>}, starts |-> {}, is |-> {}],
      [family |-> "Phi", has |-> {<<"p", "h", "i", "-">>}, starts |-> {<<"p", "h", "i">>}, is |-> {}],
      [family |-> "Gemma", has |-> {<<"g", "e", "m", "m", "a">>}, starts |-> {}, is |-> {}],
      [family |-> "Glm", has |-> {<<"g", "l", "m">>}, starts |-> {}, is |-> {}],
      [family |-> "Kimi", has |-> {<<"k", "i", "m", "i">>, <<"m", "o", "o", "n", "s", "h", "o", "t">>}, starts |-> {},
       is |-> {}],
      [family |-> "Yi", has |-> {<<"y", "i", "-">>, <<"0", "1", "-", "a", "i">>}, starts |-> {<<"y", "i", "-">>},
       is |-> {}],
      [family |-> "Command", has |-> {<<"c", "o", "m", "m", "a", "n", "d">>}, starts |-> {}, is |-> {}],
      [family |-> "Jamba", has |-> {<<"j", "a", "m", "b", "a">>}, starts |-> {}, is |-> {}]>>

FamilyMatches(s, row) ==
    \/ \E p \in row.has : contains(s, p)
    \/ \E p \in row.starts : starts_with(s, p)
    \/ s \in row.is

RECURSIVE FirstFamily(_, _)
FirstFamily(s, table) ==
    IF table = <<>> THEN "Other"
    ELSE IF FamilyMatches(s, Head(table)) THEN Head(table).family
    ELSE FirstFamily(s, Tail(table))

\* s.split('/').last()
LastSegment(parts) == parts[Len(parts)]

FamilyOfNormalized(s) ==
    IF s = <<>> THEN "Other"
    ELSE FirstFamily(LastSegment(split(s, "/")), FamilyTable)

detect_model_family(model_id) == FamilyOfNormalized(normalize_token(model_id))

SameFamily(a, b) == a = "Other" \/ a = b

is_same_family(request_model, candidate_model) ==
    SameFamily(detect_model_family(request_model),
               detect_model_family(candidate_model))

\* the value of a run of digits
RECURSIVE DecValue(_)
DecValue(s) ==
    IF s = <<>> THEN 0
    ELSE 10 * DecValue(SubSeq(s, 1, Len(s) - 1)) + DigitVal[s[Len(s)]]

\* str::parse::<u32>() of the numbers the ids used carry (at most 9 digits)
ParseU32(s) ==
    IF is_all_digits(s) /\ Len(s) <= 9 THEN DecValue(s) ELSE NoNum

\* chars().take_while(is_ascii_digit)
RECURSIVE DigitPrefix(_)
DigitPrefix(s) ==
    IF s # <<>> /\ Head(s) \in Digits THEN <<Head(s)>> \o DigitPrefix(Tail(s))
    ELSE <<>>

\* rest.split(|c| c == '-' || c == '_' || c == '/').next()
RECURSIVE FirstField(_)
FirstField(s) ==
    IF s = <<>> \/ Head(s) \in {"-", "_", "/"} THEN <<>>
    ELSE <<Head(s)>> \o FirstField(Tail(s))

MajorMinorOfParts(parts) ==
    [major |-> ParseU32(parts[1]),
     minor |-> IF Len(parts) >= 2 THEN ParseU32(DigitPrefix(parts[2]))
               ELSE NoNum]

MajorMinorOfHead(head) ==
    IF starts_with(head, <<"4", "o">>) THEN [major |-> 4, minor |-> NoNum]
    ELSE MajorMinorOfParts(split(head, "."))

MajorMinorOfLower(lower) ==
    IF ~starts_with(lower, GptPrefix) THEN [major |-> NoNum, minor |-> NoNum]
    ELSE MajorMinorOfHead(FirstField(SubSeq(lower, 5, Len(lower))))

extract_major_minor_gpt(s) == MajorMinorOfLower(to_lowercase(s))

\* (Some(a), Some(b)) if a == b => +same, (Some(_), Some(_)) => -diff
NumberTerm(a, b, same, diff) ==
    IF a = NoNum \/ b = NoNum THEN 0 ELSE IF a = b THEN same ELSE 0 - diff

\* equal wishes => +plus, wished by the request only => -minus
WishTerm(req_has, cand_has, plus, minus) ==
    IF req_has = cand_has THEN plus
    ELSE IF req_has /\ ~cand_has THEN 0 - minus ELSE 0

LengthTerm(len) == (IF len < 60 THEN len ELSE 60) \div 6

VersionTerms(r, c) ==
    NumberTerm(r.major, c.major, 120, 200) + NumberTerm(r.minor, c.minor, 60, 30)

ScoreSameFamily(rq, cand, len) ==
    (IF starts_with(rq, GptPrefix) # starts_with(cand, GptPrefix)
     THEN 0 - 10000 ELSE 0)
    + VersionTerms(extract_major_minor_gpt(rq), extract_major_minor_gpt(cand))
    + WishTerm(contains(rq, <<"c", "o", "d", "e", "x">>), contains(cand, <<"c", "o", "d", "e", "x">>), 10, 15)
    + WishTerm(contains(rq, <<"-", "l", "o", "w">>) \/ ends_with(rq, <<"-", "l", "o", "w">>),
               contains(cand, <<"-", "l", "o", "w">>) \/ ends_with(cand, <<"-", "l", "o", "w">>), 3, 3)
    + WishTerm(contains(rq, <<"m", "i", "n", "i">>), contains(cand, <<"m", "i", "n", "i">>), 2, 2)
    - LengthTerm(len)

score_candidate(request, candidate) ==
    IF normalize_token(request) = normalize_token(candidate) THEN 10000
    ELSE IF ~is_same_family(request, candidate) THEN 0 - 100000
    ELSE ScoreSameFamily(normalize_token(request), normalize_token(candidate),
                         Len(candidate))

NoBest == [some |-> FALSE, s |-> 0, m |-> <<>>]

\* the comparison that replaces the best candidate so far
Better(best, s, c) ==
    \/ ~best.some
    \/ s > best.s
    \/ /\ s = best.s
       /\ \/ Len(c) < Len(best.m)
          \/ Len(c) = Len(best.m) /\ LexLess(c, best.m)

Offer(best, s, c) ==
    IF Better(best, s, c) THEN [some |-> TRUE, s |-> s, m |-> c] ELSE best

RECURSIVE BestOf(_, _, _, _)
BestOf(rq, family, candidates, best) ==
    IF candidates = <<>> THEN best
    ELSE IF family # "Other" /\ detect_model_family(Head(candidates)) # family
         THEN BestOf(rq, family, Tail(candidates), best)
         ELSE BestOf(rq, family, Tail(candidates),
                     Offer(best, score_candidate(rq, Head(candidates)),
                           Head(candidates)))

BestForSanitized(rq, candidates) ==
    BestOf(rq, detect_model_family(rq), candidates, NoBest)

choose_best_model(request_model, candidates) ==
    BestForSanitized(sanitize_openai_model_name(request_model), candidates)

\* the alias map of the env as read_alias_map returns it: keys and values
\* sanitized, keys normalized, entries with an empty key or value skipped
AliasEntry(k, v) == [k |-> normalize_token(k), v |-> v, keep |-> trim(k) # <<>> /\ trim(v) # <<>>]

ReadAliasIds(raw) ==
    {e \in {AliasEntry(sanitize_openai_model_name(k),
                       sanitize_openai_model_name(raw[k])) : k \in DOMAIN raw} :
        e.keep}

EntriesToMap(es) ==
    [k \in {e.k : e \in es} |-> (CHOOSE e \in es : e.k = k).v]

read_alias_ids(raw) == EntriesToMap(ReadAliasIds(raw))

\* keys.sort(); take(n) on ids
SmallestIds(keys, n) ==
    {k \in keys : Cardinality({j \in keys : LexLess(j, k)}) < n}

TruncateAliasIds(m) ==
    RemoveKeys(m, SmallestIds(DOMAIN m, drop_n(Cardinality(DOMAIN m))))

\* merge_alias_map on ids
merge_alias_ids(current, request_key, chosen) ==
    TruncateAliasIds(MapInsert(current, normalize_token(request_key), chosen))

EmptyAliases == [k \in {} |-> <<>>]

NoWriteback ==
    [some |-> FALSE, value |-> EmptyAliases, from_model |-> <<>>,
     to_model |-> <<>>]

Unchanged(body_model, via) ==
    [model |-> body_model, wb |-> NoWriteback, via |-> via]

Rewritten(request_model, aliases, chosen, via) ==
    [model |-> chosen,
     wb |-> [some |-> TRUE,
             value |-> merge_alias_ids(aliases, request_model, chosen),
             from_model |-> request_model, to_model |-> chosen],
     via |-> via]

RewriteTo(request_model, aliases, best, body_model, via) ==
    IF ~best.some THEN Unchanged(body_model, via)
    ELSE IF normalize_token(best.m) = normalize_token(request_model)
         THEN Unchanged(body_model, via)
         ELSE Rewritten(request_model, aliases, best.m, via)

resolve_from_model_list(request_model, models, aliases, body_model, via) ==
    IF \E i \in DOMAIN models :
          normalize_token(models[i]) = normalize_token(request_model)
    THEN Unchanged(body_model, via)
    ELSE RewriteTo(request_model, aliases,
                   choose_best_model(request_model, models), body_model, via)

\* fetch_models: the ids of data[], sanitized, empty ones and repetitions
\* (ignoring case) skipped
RECURSIVE CleanIds(_, _)
PushId(id, rest, out) ==
    IF trim(id) = <<>> \/ \E i \in DOMAIN out : to_lowercase(out[i]) = to_lowercase(id)
    THEN CleanIds(rest, out)
    ELSE CleanIds(rest, Append(out, id))

CleanIds(data, out) ==
    IF data = <<>> THEN out
    ELSE PushId(sanitize_openai_model_name(Head(data)), Tail(data), out)

FetchResult(ok, list) == [ok |-> ok /\ list # <<>>, list |-> list]

fetch_models(reply) == FetchResult(reply.ok, CleanIds(reply.data, <<>>))

EmptyCache ==
    [pc |-> "empty", models |-> <<>>, fetched_at |-> 0, failed |-> FALSE,
     failed_at |-> 0]

WithCache(r, cache, fetched) ==
    [model |-> r.model, wb |-> r.wb, via |-> r.via, fetched |-> fetched,
     cache |-> cache]

AfterFetch(request_model, aliases, body_model, cache, got, t) ==
    IF got.ok
    THEN WithCache(resolve_from_model_list(request_model, got.list, aliases,
                                           body_model, "fetch"),
                   [cache EXCEPT !.pc = "cached", !.models = got.list,
                                 !.fetched_at = t, !.failed = FALSE],
                   TRUE)
    ELSE WithCache(Unchanged(body_model, "failed"),
                   [cache EXCEPT !.failed = TRUE, !.failed_at = t], TRUE)

FromCacheOrFetch(request_model, aliases, body_model, cache, reply, t) ==
    IF cache.pc = "cached" /\ t - cache.fetched_at <= MODEL_LIST_TTL
    THEN WithCache(resolve_from_model_list(request_model, cache.models,
                                           aliases, body_model, "cache"),
                   cache, FALSE)
    ELSE IF cache.failed /\ t - cache.failed_at <= MODEL_LIST_FAILURE_COOLDOWN
         THEN WithCache(Unchanged(body_model, "cooldown"), cache, FALSE)
         ELSE AfterFetch(request_model, aliases, body_model, cache,
                         fetch_models(reply), t)

AliasHit(request_model, aliases, request_key) ==
    /\ request_key \in DOMAIN aliases
    /\ is_same_family(request_model, aliases[request_key])
    /\ normalize_token(aliases[request_key]) # request_key

FromAliasOrList(p, request_model, aliases, request_key, body_model, cache, reply, t) ==
    IF AliasHit(request_model, aliases, request_key)
    THEN WithCache(Unchanged(aliases[request_key], "alias"), cache, FALSE)
    ELSE IF extract_base_url(p, "codex") = None
         THEN WithCache(Unchanged(body_model, "nourl"), cache, FALSE)
         ELSE FromCacheOrFetch(request_model, aliases, body_model, cache,
                               reply, t)

ResolveSanitized(p, request_model, raw, body_model, cache, reply, t) ==
    IF trim(request_model) = <<>> \/ request_model = <<"u", "n", "k", "n", "o", "w", "n">>
    THEN WithCache(Unchanged(body_model, "skip"), cache, FALSE)
    ELSE IF detect_model_family(request_model) # "OpenAi"
         THEN WithCache(Unchanged(body_model, "skip"), cache, FALSE)
         ELSE FromAliasOrList(p, request_model, read_alias_ids(raw),
                              normalize_token(request_model), body_model,
                              cache, reply, t)

\* the body's model after the call, the pending writeback, whether
\* /v1/models was fetched, and MODEL_LIST_CACHE / MODEL_LIST_FAILURES after it
resolve_openai_model_in_body(p, raw, original_request_model, cache, reply, t) ==
    ResolveSanitized(p, sanitize_openai_model_name(original_request_model),
                     raw, original_request_model, cache, reply, t)

(***************************************************************************)
(* Codex requests through the resolver: a call, the writeback of its alias *)
(* map to the provider's env after the 2xx, the next call.                 *)
(***************************************************************************)
ResolverProvider == "x"

RequestModels == {<<"g", "p", "t", "-", "5", ".", "2", "-", "2", "0", "2", "5", "-", "1", "2", "-", "1", "1">>, <<"g", "p", "t", "-", "5", ".", "1">>, <<"G", "P", "T", "-", "5", ".", "2">>, <<"q", "w", "e", "n", "-", "3">>}

\* what /v1/models answers: data[] of a 2xx reply, or no usable reply
ModelsReplies ==
    {[ok |-> TRUE, data |-> <<<<"g", "p", "t", "-", "5", ".", "1">>, <<"g", "p", "t", "-", "5", ".", "2", "-", "c", "o", "d", "e", "x">>, <<"g", "p", "t", "-", "4", "o">>>>],
     [ok |-> TRUE, data |-> <<<<"g", "p", "t", "-", "5", "-", "2", "0", "2", "5", "x", "-", "0", "6", "1", "3">>>>],
     [ok |-> TRUE, data |-> <<<<"g", "p", "t", "-", "5", ".", "2">>, <<"G", "P", "T", "-", "5", ".", "2">>, <<"g", "p", "t", "-", "5", ".", "1">>>>],
     [ok |-> TRUE, data |-> <<<<"g", "p", "t", "-", "4", "o">>, <<"g", "p", "t", "-", "4", "o", "-", "m", "i", "n", "i">>>>],
     [ok |-> TRUE, data |-> <<>>],
     [ok |-> FALSE, data |-> <<>>]}

\* the alias map the provider's env holds before the run
InitialAliases ==
    {EmptyAliases,
     [k \in {<<"g", "p", "t", "-", "5", ".", "1">>} |-> <<"g", "p", "t", "-", "4", "o">>],
     [k \in {<<"g", "p", "t", "-", "4">>} |-> <<"g", "p", "t", "-", "4", "o">>]}

ClockSteps == {MODEL_LIST_FAILURE_COOLDOWN + 1, MODEL_LIST_TTL + 1}

\* prev: the model the persisted writeback of the call just before chose for
\* the same request, when this call immediately follows it
IdleCall ==
    [pc |-> "idle", request |-> <<>>, model |-> <<>>, wb |-> NoWriteback,
     via |-> "none", fetched |-> FALSE, at |-> 0, n |-> 0, prev |-> <<>>]

InitRes ==
    /\ InitProxy({StoreConfig({"codex"}, {"codex"}, {"x"}, "x", 0)})
    /\ san = NoSan
    /\ modelCache = EmptyCache
    /\ call = IdleCall
    /\ \E m \in InitialAliases : env = [NoEnv EXCEPT !.aliases = m]

Follows(c, request, t) ==
    c.pc = "persisted" /\ c.request = request /\ c.at = t

CallRecord(c, request, r, t) ==
    [pc |-> "resolved", request |-> request, model |-> r.model, wb |-> r.wb,
     via |-> r.via, fetched |-> r.fetched, at |-> t, n |-> c.n + 1,
     prev |-> IF Follows(c, request, t) THEN c.wb.to_model ELSE <<>>]

ResolveStep(request, r) ==
    /\ call' = CallRecord(call, request, r, now)
    /\ modelCache' = r.cache

\* the forwarder resolves the model of a Codex request for the provider
ResolveModel(request, reply) ==
    /\ call.n < MaxResolves
    /\ ResolveStep(request,
                   resolve_openai_model_in_body(ResolverProvider, env.aliases,
                                                request, modelCache, reply, now))
    /\ UNCHANGED <<proxyVars, san, env>>

\* the upstream answered 2xx: the pending writeback is written to the env
PersistWriteback ==
    /\ call.pc = "resolved" /\ call.wb.some
    /\ env' = [aliases |-> call.wb.value, writes |-> env.writes + 1,
               read |-> env.read]
    /\ call' = [call EXCEPT !.pc = "persisted", !.at = now]
    /\ UNCHANGED <<proxyVars, san, modelCache>>

\* time passes between a request and the next
Elapse(d) ==
    /\ call.pc # "idle" /\ call.at = now
    /\ call.n < MaxResolves
    /\ now + d <= MaxResTime
    /\ now' = now + d
    /\ UNCHANGED <<store, breaker, rr, activeLevel, tested, urlLat, cooldown,
                   suspect, currentUrl, testOverride, testResults, persisted,
                   req, bench, benchLock, status, stats, wb, hist, resolverVars>>

NextRes ==
    \/ \E request \in RequestModels, reply \in ModelsReplies :
          ResolveModel(request, reply)
    \/ PersistWriteback
    \/ \E d \in ClockSteps : Elapse(d)

SpecRes == InitRes /\ [][NextRes]_vars

\* C15: a resolve call that immediately follows the persisted writeback of a
\* call for the same request selects the model that call chose and does not
\* fetch /v1/models.
C15_SecondRequestSelectsChosen ==
    [][(Follows(call, call'.request, now) /\ call'.pc = "resolved"
        /\ call'.n = call.n + 1) =>
           (call'.model = call.wb.to_model /\ ~call'.fetched)]_vars

\* the same, for a chosen model that the sanitizer leaves as it is
SecondRequestSelectsStableChosen ==
    [][(Follows(call, call'.request, now) /\ call'.pc = "resolved"
        /\ call'.n = call.n + 1
        /\ sanitize_openai_model_name(call.wb.to_model) = call.wb.to_model) =>
           (call'.model = call.wb.to_model /\ ~call'.fetched)]_vars

\* the first call chose gpt-5-2025x (the listed gpt-5-2025x-0613, sanitized)
\* for gpt-5.2 and its writeback was persisted; the call that followed read
\* the alias back as gpt-5 and selected that
C15_ResanitizedAliasReached ==
    /\ call.pc = "resolved" /\ call.via = "alias" /\ ~call.fetched
    /\ call.request = <<"g", "p", "t", "-", "5", ".", "2", "-", "2", "0", "2", "5", "-", "1", "2", "-", "1", "1">>
    /\ call.prev = <<"g", "p", "t", "-", "5", "-", "2", "0", "2", "5", "x">>
    /\ call.model = <<"g", "p", "t", "-", "5">>

\* S5: gpt-5.2-2025-12-11 was rewritten to gpt-5.2-codex and the writeback
\* persisted; the call that followed took gpt-5.2-codex from the alias map
S5_SecondRequestViaAlias ==
    /\ call.pc = "resolved" /\ call.via = "alias" /\ ~call.fetched
    /\ call.request = <<"g", "p", "t", "-", "5", ".", "2", "-", "2", "0", "2", "5", "-", "1", "2", "-", "1", "1">>
    /\ call.prev = <<"g", "p", "t", "-", "5", ".", "2", "-", "c", "o", "d", "e", "x">>
    /\ call.model = <<"g", "p", "t", "-", "5", ".", "2", "-", "c", "o", "d", "e", "x">>


(***************************************************************************)
(* The test override as the CLI installs it (cc-switch-cli.rs,             *)
(* handle_test_latency and run_startup_override_once): the TTL it sends is *)
(* computed from two environment variables, then set_test_override runs.   *)
(***************************************************************************)
NoEnvVar == -1                      \* variable unset or not a u64

\* a clamp that returns its argument
clamp_none(v, lo, hi) == v

\* u64::clamp
clamp(v, lo, hi) == IF v < lo THEN lo ELSE IF v > hi THEN hi ELSE v

unwrap_or(v, d) == IF v = NoEnvVar THEN d ELSE v

\* CC_SWITCH_STARTUP_TEST_TIMEOUT_SECS
timeout_secs(env_timeout) == clamp(unwrap_or(env_timeout, 60), 15, 300)

TtlFor(env_ttl, timeout) == clamp(unwrap_or(env_ttl, timeout + 10), timeout, 360)

\* CC_SWITCH_TEST_OVERRIDE_TTL_SECS
override_ttl_secs(env_timeout, env_ttl) ==
    TtlFor(env_ttl, timeout_secs(env_timeout))

EnvTimeouts == {NoEnvVar, 0, 1000}
EnvTtls == {NoEnvVar, 0, 100000}

OvStores ==
    {StoreConfig({"claude"}, {"claude"}, {"a", "b", "c"}, None, 0),
     StoreConfig({"claude"}, {"claude"}, {"a", "d", "c"}, None, 0),
     StoreConfig({"claude"}, {}, {"a", "b"}, "c", 0)}

InitOv == InitWith(OvStores)

\* POST /__cc_switch/test_override/start with the TTL the CLI computed
StartTestOverride(app, key, env_timeout, env_ttl) ==
    /\ app \in store.apps /\ key[1] = app
    /\ hist.overrides < MaxOverrides
    /\ SetRouterState(set_test_override(RouterState, app, key[2], key[3], "run1",
                                        override_ttl_secs(env_timeout, env_ttl),
                                        now))
    /\ hist' = [hist EXCEPT !.op = "override", !.app = None, !.ok = FALSE,
                            !.chain = <<>>, !.test = FALSE, !.called = {},
                            !.overrides = @ + 1]
    /\ UNCHANGED <<status, stats, wb, resolverVars, now, store, persisted, req,
                   bench, benchLock>>

NextOv ==
    \/ \E app \in Apps :
          hist.calls[app] < MaxUrlSelects
              /\ SelectProvidersOver(UrlProbeKinds, app)
    \/ \E app \in Apps, key \in SupplierKeys, et \in EnvTimeouts, ettl \in EnvTtls :
          StartTestOverride(app, key, et, ettl)
    \/ Tick

SpecOv == InitOv /\ [][NextOv]_vars

\* a step that is a select_providers call for app
SelectStep(app) ==
    /\ hist'.op = "select" /\ hist'.app = app
    /\ hist'.calls[app] = hist.calls[app] + 1

\* the provider belongs to the tier and supplier of the override
MatchesOverride(p, ov) ==
    SortIndexOrDefault(p) = ov.priority /\ supplier_name(p) = ov.supplier

\* what a call under an active override must return
ConfinedToOverride(app) ==
    /\ \A p \in SeqToSet(hist'.chain) : MatchesOverride(p, testOverride)
    /\ (\A q \in QueuedOf(store, app) : ~MatchesOverride(q, testOverride))
           => (~hist'.ok /\ hist'.chain = <<>>)

\* C21: while a test override is active for the app, every provider of the
\* chain a select_providers call returns belongs to the override's tier and
\* supplier, and the call fails with no provider when no queued provider
\* matches the override.
C21_ChainConfinedToOverride ==
    [][\A app \in Apps :
          (SelectStep(app) /\ OverrideActive(app)) => ConfinedToOverride(app)]_vars

\* the same for the calls made with failover enabled
FailoverChainConfinedToOverride ==
    [][\A app \in Apps :
          (FailoverSelectStep(app) /\ OverrideActive(app))
              => ConfinedToOverride(app)]_vars

\* failover is disabled, an override for anyrouter at tier 1 is active and the
\* call returned the current provider c of openrouter at tier 2
C21_CurrentProviderUnderOverrideReached ==
    /\ hist.op = "select" /\ hist.ok /\ hist.chain = <<"c">>
    /\ ~store.failover["claude"]
    /\ OverrideActive("claude")
    /\ testOverride.priority = 1 /\ testOverride.supplier = "anyrouter"

\* failover is enabled, the override names a supplier that is not queued and
\* the call returned no provider
NoMatchUnderOverrideReached ==
    /\ hist.op = "select" /\ ~hist.ok /\ hist.chain = <<>>
    /\ store.failover["claude"]
    /\ OverrideActive("claude")
    /\ testOverride.supplier = "solo"

CallEnds(r) == InFlight(r) /\ req'[r] = IdleReq /\ hist'.op # "cancel"

\* the call of request r takes a step and goes on
CallGoesOn(r) == InFlight(r) /\ req'[r] # req[r] /\ req'[r] # IdleReq

\* exactly one of success_requests and failed_requests grew, by one, and the
\* rate was recomputed
OneTerminalCount ==
    /\ {stats'.success_requests - stats.success_requests,
        stats'.failed_requests - stats.failed_requests} = {0, 1}
    /\ stats'.success_rate = SuccessRate(stats')

NoTerminalCount ==
    /\ stats'.success_requests = stats.success_requests
    /\ stats'.failed_requests = stats.failed_requests

\* C30: the step that returns from a forward_with_retry call (the chain is
\* never empty here) increments exactly one of success_requests and
\* failed_requests by one and recomputes success_rate; a step after which the
\* call goes on to a further attempt increments neither.
C30_ExactlyOneTerminalCount ==
    [][\A r \in Reqs :
          /\ CallEnds(r) => OneTerminalCount
          /\ CallGoesOn(r) => NoTerminalCount]_vars

\* the same for the calls that are not test traffic walking several providers
RealTrafficOneTerminalCount ==
    [][\A r \in Reqs :
          /\ (CallEnds(r) /\ (~req[r].test \/ req[r].bypass)) => OneTerminalCount
          /\ CallGoesOn(r) => NoTerminalCount]_vars

\* a test request over a chain of two providers has returned its first error:
\* one attempt was counted, neither a success nor a failure
C30_TestErrorUncountedReached ==
    /\ hist.op = "complete" /\ hist.test /\ ~hist.ok
    /\ stats.total_requests = 1
    /\ stats.success_requests = 0 /\ stats.failed_requests = 0

(***************************************************************************)
(* Test traffic in forward_with_retry (specifications SpecFwd and          *)
(* SpecTestLive). The request task is scheduled by the runtime until it    *)
(* returns, and every upstream send ends with an answer or with the        *)
(* client's timeout error: weak fairness of the steps of a request.        *)
(***************************************************************************)
TestStores ==
    {StoreConfig({"claude"}, {"claude"}, {"a", "b"}, None, 0),
     StoreConfig({"claude"}, {}, {"a"}, "a", 1)}

InitTest == InitWith(TestStores)

\* the requests of one client, one after the other, and the override
NextTest ==
    \/ \E app \in Apps : ReqSelect("r1", app)
    \/ ReqStart("r1")
    \/ ReqDispatch("r1")
    \/ \E up \in FwdReplies : ReqComplete("r1", up)
    \/ \E app \in Apps, key \in SupplierKeys, ttl \in TtlChoices :
          SetTestOverride(app, key, "run1", ttl)
    \/ Tick

RequestFairness ==
    /\ WF_vars(ReqStart("r1"))
    /\ WF_vars(ReqDispatch("r1"))
    /\ WF_vars(\E up \in FwdReplies : ReqComplete("r1", up))

SpecTest == InitTest /\ [][NextTest]_vars

SpecTestLive == SpecTest /\ RequestFairness

\* request r is inside forward_with_retry as test traffic
TestInFlight(r) == InFlight(r) /\ req[r].test

\* the step is the return of forward_with_retry from the test request r
TestCallEnds(r) == TestInFlight(r) /\ CallEnds(r)

\* the outcome of the call is stored under the run id of the override
ResultRecorded(r) ==
    /\ testResults'[testOverride.run_id].chosen_url
           = extract_base_url(req[r].prov, req[r].app)
    /\ testResults'[testOverride.run_id].chosen_kind
           = IF hist'.ok THEN "OK" ELSE "FAIL"

\* C22: a request that forward_with_retry handles as test traffic returns,
\* and when it returns while the override is still active its outcome
\* (success or error) is stored under the override's run id, so that
\* get_test_result(run_id) has a result from then on.
C22_TestRequestLeavesResult ==
    /\ [][\A r \in Reqs :
             (TestCallEnds(r) /\ OverrideActive(req[r].app)) =>
                 ResultRecorded(r)]_vars
    /\ TestInFlight("r1") ~>
           (req["r1"].pc = "idle"
            /\ (get_test_result(RouterState, "run1") # NoResult
                \/ ~OverrideActive(testOverride.app)))

\* a test request has failed and get_test_result returns its FAIL result
C22_Witness ==
    /\ hist.op = "complete" /\ hist.test /\ ~hist.ok
    /\ get_test_result(RouterState, "run1").chosen_kind = "FAIL"

\* a test request has succeeded and get_test_result returns its OK result
TestSuccessRecordedReached ==
    /\ hist.op = "complete" /\ hist.test /\ hist.ok
    /\ get_test_result(RouterState, "run1").chosen_kind = "OK"

\* C23: a request handled as test traffic is sent to one provider only: it is
\* dispatched from the first position of the walk (first tier, first round,
\* first provider, nothing skipped) and the answer to that send, whatever it
\* is, ends the call.
C23_TestRequestTriesOneProvider ==
    [][\A r \in Reqs :
          /\ (req'[r].test /\ req'[r].pc = "sent" /\ req[r].pc # "sent") =>
                 (req'[r].bypass
                  \/ (req'[r].ti = 1 /\ req'[r].round = 0 /\ req'[r].pi = 1
                      /\ req'[r].skipped = 0))
          /\ (req[r].test /\ req[r].pc = "sent" /\ req'[r] # req[r]) =>
                 req'[r] = IdleReq]_vars

\* a test request over the chain [a, b] has returned the Retryable error of
\* its first provider: one attempt was made
C23_Witness ==
    /\ store.failover["claude"] /\ store.queue = {"a", "b"}
    /\ hist.op = "complete" /\ hist.test /\ ~hist.ok /\ hist.issued = 1
    /\ stats.total_requests = 1
    /\ \A r \in Reqs : req[r].pc = "idle"

(***************************************************************************)
(* Errors of the upstream in forward_with_retry without a test override    *)
(* (specification SpecErr): one client, every error forward() builds.      *)
(***************************************************************************)
StatusCodes == {400, 401, 403, 408, 429, 500, 599, 600}

ErrReplies ==
    {Reply("2xx", FALSE, "none", FALSE),
     Reply("transport", FALSE, "none", FALSE),
     Reply("connect", FALSE, "none", FALSE),
     Reply("noauth", FALSE, "none", FALSE)}
    \cup {StatusReply(code) : code \in StatusCodes}

ErrStores ==
    {StoreConfig({"claude"}, {"claude"}, {"a", "b", "c"}, None, 0),
     StoreConfig({"claude"}, {"claude"}, {"a", "c"}, None, 2),
     StoreConfig({"claude"}, {}, {"a"}, "a", 2),
     StoreConfig({"claude"}, {}, {"c"}, "c", 0)}

InitErr == InitWith(ErrStores)

NextErr ==
    \/ \E app \in Apps : ReqSelect("r1", app)
    \/ ReqStart("r1")
    \/ ReqDispatch("r1")
    \/ \E up \in ErrReplies : ReqComplete("r1", up)
    \/ Tick

SpecErr == InitErr /\ [][NextErr]_vars

\* the step is the answer up to the send of request r, and it is an error
FailedSend(r, up) ==
    /\ req[r].pc = "sent"
    /\ forward(req[r].app, up).err # NoError
    /\ ReqComplete(r, up)

Last(s) == s[Len(s)]

\* C27: in the tier walk of a request that is not test traffic, an error of a
\* provider that is not the last one of the chain (a timeout, a refused
\* connection, missing auth, any upstream status, 401 and 403 included) does
\* not end the call: the walk goes on, and to another provider when the tier
\* holds more than one.
C27_ErrorMovesToNextProvider ==
    [][\A r \in Reqs, up \in ErrReplies :
          (FailedSend(r, up) /\ ~req[r].bypass /\ ~req[r].test
           /\ req[r].prov # Last(req[r].chain)) =>
              /\ req'[r].pc = "walk"
              /\ Len(Level(req[r])) > 1 =>
                     Level(req'[r])[req'[r].pi] # req[r].prov]_vars

\* the first provider of a chain of three has answered 401 and the walk is at
\* the second one
C27_Witness ==
    /\ hist.op = "complete" /\ ~hist.ok /\ ~hist.test
    /\ req["r1"].pc = "walk" /\ Len(req["r1"].chain) = 3
    /\ req["r1"].ti = 1 /\ req["r1"].pi = 2
    /\ stats.total_requests = 1
    /\ breaker[req["r1"].chain[1]].state = "Open"

\* the errors section 4.8 lets the same provider be asked again after
SameProviderRetryable(err) ==
    \/ err.variant \in {"Timeout", "ForwardFailed"}
    \/ /\ err.variant = "UpstreamError"
       /\ err.status \in {408, 429} \cup (500..599)

\* C28: a request on the single-provider branch that is not test traffic is
\* sent at most max_retries + 1 times (tries counts the sends left after the
\* one in flight), it is sent again only after a Timeout, a ForwardFailed or
\* an UpstreamError with status 408, 429 or 500..599, and any other error
\* ends the call.
C28_SameProviderRetryOnly ==
    [][\A r \in Reqs, up \in ErrReplies :
          (FailedSend(r, up) /\ req[r].bypass /\ ~req[r].test) =>
              /\ req[r].tries \in 0..store.max_retries
              /\ req'[r].pc = "sent" =>
                     /\ SameProviderRetryable(forward(req[r].app, up).err)
                     /\ req'[r].tries = req[r].tries - 1
              /\ ~SameProviderRetryable(forward(req[r].app, up).err) =>
                     req'[r] = IdleReq]_vars

\* the same with the status test of the code: 408, 429 or at least 500
RetriesAsShouldRetrySameProvider ==
    [][\A r \in Reqs, up \in ErrReplies :
          (FailedSend(r, up) /\ req[r].bypass /\ ~req[r].test) =>
              /\ req[r].tries \in 0..store.max_retries
              /\ req'[r].pc = "sent" <=>
                     /\ should_retry_same_provider(forward(req[r].app, up).err)
                     /\ req[r].tries > 0]_vars

\* the single provider has failed once and is being asked again
C28_RetriedSendReached ==
    /\ hist.op = "complete" /\ ~hist.ok /\ ~hist.test
    /\ req["r1"].pc = "sent" /\ req["r1"].bypass
    /\ req["r1"].tries < store.max_retries

(***************************************************************************)
(* Claude requests: the explicit mapping of model_mapper.rs, then the      *)
(* resolver of model_resolver.rs against the provider's /v1/models.        *)
(* A body is [model, thinking]; the provider's env maps each key to a      *)
(* model id, the empty id standing for a key that is not set.              *)
(***************************************************************************)
NoKeyword == <<>>

\* map_model's inner fn claude_family, on a lower-cased id
claude_family(lower) ==
    IF contains(lower, <<"h", "a", "i", "k", "u">>) THEN <<"h", "a", "i", "k", "u">>
    ELSE IF contains(lower, <<"s", "o", "n", "n", "e", "t">>) THEN <<"s", "o", "n", "n", "e", "t">>
    ELSE IF contains(lower, <<"o", "p", "u", "s">>) THEN <<"o", "p", "u", "s">>
    ELSE NoKeyword

\* a guard that lets every mapping through
accept_any_mapping(original_model, mapped) == TRUE

KeepsSubFamily(original_keyword, mapped_lower) ==
    \/ claude_family(mapped_lower) = NoKeyword
    \/ contains(mapped_lower, original_keyword)

\* map_model's closure is_acceptable_mapping
is_acceptable_mapping(original_model, mapped) ==
    IF ~is_same_family(original_model, mapped) THEN FALSE
    ELSE IF /\ detect_model_family(original_model) = "Claude"
            /\ claude_family(to_lowercase(original_model)) # NoKeyword
         THEN KeepsSubFamily(claude_family(to_lowercase(original_model)),
                             to_lowercase(mapped))
         ELSE TRUE

ClaudeEnvKeys ==
    {"ANTHROPIC_BASE_URL", "ANTHROPIC_DEFAULT_HAIKU_MODEL",
     "ANTHROPIC_DEFAULT_SONNET_MODEL", "ANTHROPIC_DEFAULT_OPUS_MODEL",
     "ANTHROPIC_MODEL", "ANTHROPIC_REASONING_MODEL"}

\* ModelMapping::from_provider: an empty value counts as not set
from_provider(penv) ==
    [haiku_model |-> penv["ANTHROPIC_DEFAULT_HAIKU_MODEL"],
     sonnet_model |-> penv["ANTHROPIC_DEFAULT_SONNET_MODEL"],
     opus_model |-> penv["ANTHROPIC_DEFAULT_OPUS_MODEL"],
     default_model |-> penv["ANTHROPIC_MODEL"],
     reasoning_model |-> penv["ANTHROPIC_REASONING_MODEL"]]

has_mapping(mapping) ==
    \E f \in DOMAIN mapping : mapping[f] # <<>>

IfSet(cond, m) == IF cond /\ m # <<>> THEN <<m>> ELSE <<>>

\* the mappings map_model looks at for the id, in the order it does
MappingCandidates(mapping, model_lower, has_thinking) ==
    IfSet(has_thinking, mapping.reasoning_model)
        \o IfSet(contains(model_lower, <<"h", "a", "i", "k", "u">>), mapping.haiku_model)
        \o IfSet(contains(model_lower, <<"o", "p", "u", "s">>), mapping.opus_model)
        \o IfSet(contains(model_lower, <<"s", "o", "n", "n", "e", "t">>), mapping.sonnet_model)
        \o IfSet(TRUE, mapping.default_model)

RECURSIVE FirstAcceptable(_, _)
FirstAcceptable(original_model, cands) ==
    IF cands = <<>> THEN original_model
    ELSE IF is_acceptable_mapping(original_model, Head(cands))
         THEN Head(cands)
         ELSE FirstAcceptable(original_model, Tail(cands))

map_model(mapping, original_model, has_thinking) ==
    FirstAcceptable(original_model,
                    MappingCandidates(mapping, to_lowercase(original_model),
                                      has_thinking))

NoModelField == <<>>                \* a body without "model"

has_thinking_enabled(body) == body.thinking

\* apply_model_mapping: the body after the mapping
apply_model_mapping(body, penv) ==
    IF ~has_mapping(from_provider(penv)) \/ body.model = NoModelField
    THEN body
    ELSE [body EXCEPT !.model = map_model(from_provider(penv), body.model,
                                          has_thinking_enabled(body))]

\* model_resolver.rs detect_family
detect_family(s) == claude_family(to_lowercase(s))

detect_thinking(s) ==
    \/ contains(to_lowercase(s), <<"t", "h", "i", "n", "k", "i", "n", "g">>)
    \/ contains(to_lowercase(s), <<"r", "e", "a", "s", "o", "n", "i", "n", "g">>)
    \/ contains(to_lowercase(s), <<":", "e", "x", "t", "e", "n", "d", "e", "d">>)

\* the last index of the run of digits that holds position i
RECURSIVE RunEnd(_, _)
RunEnd(s, i) ==
    IF i < Len(s) /\ s[i + 1] \in Digits THEN RunEnd(s, i + 1) ELSE i

\* (\d+)[seps](\d+) matches at i
VersionAt(s, i, seps) ==
    /\ s[i] \in Digits
    /\ RunEnd(s, i) + 2 <= Len(s)
    /\ s[RunEnd(s, i) + 1] \in seps
    /\ s[RunEnd(s, i) + 2] \in Digits

NoVersion == [major |-> NoNum, minor |-> NoNum]

VersionFrom(s, i, e) ==
    [major |-> ParseU32(SubSeq(s, i, e)),
     minor |-> ParseU32(SubSeq(s, e + 2, RunEnd(s, e + 2)))]

\* Regex::captures: the leftmost match
HasVersion(s, seps) == \E i \in DOMAIN s : VersionAt(s, i, seps)

FirstVersionAt(s, seps) ==
    CHOOSE i \in DOMAIN s :
        VersionAt(s, i, seps) /\ \A j \in 1..(i - 1) : ~VersionAt(s, j, seps)

VersionOf(s, i) == VersionFrom(s, i, RunEnd(s, i))

extract_major_minor(s) ==
    IF HasVersion(s, {"."}) THEN VersionOf(s, FirstVersionAt(s, {"."}))
    ELSE IF HasVersion(s, {"-", "_"})
         THEN VersionOf(s, FirstVersionAt(s, {"-", "_"}))
         ELSE NoVersion

\* the bytes of the ids used that are not \w
NonWord == {" ", "-", ".", "/", ":"}
NoDate == <<>>

\* \b(\d{8})\b matches at i
DateAt(s, i) ==
    /\ i + 7 <= Len(s)
    /\ \A j \in i..(i + 7) : s[j] \in Digits
    /\ i = 1 \/ s[i - 1] \in NonWord
    /\ i + 7 = Len(s) \/ s[i + 8] \in NonWord

FirstDateAt(s) ==
    CHOOSE i \in DOMAIN s : DateAt(s, i) /\ \A j \in 1..(i - 1) : ~DateAt(s, j)

extract_date_yyyymmdd(s) ==
    IF \E i \in DOMAIN s : DateAt(s, i)
    THEN SubSeq(s, FirstDateAt(s), FirstDateAt(s) + 7)
    ELSE NoDate

FeaturesOf(family, version, thinking, date) ==
    [family |-> family, major |-> version.major, minor |-> version.minor,
     thinking |-> thinking, date |-> date]

parse_features(model, thinking_from_body) ==
    FeaturesOf(detect_family(model), extract_major_minor(model),
               thinking_from_body \/ detect_thinking(model),
               extract_date_yyyymmdd(model))

FamilyScore(request, candidate) ==
    IF request.family = NoKeyword THEN 0
    ELSE IF candidate.family = request.family THEN 100
    ELSE IF candidate.family # NoKeyword THEN 0 - 1000
    ELSE 0 - 50

VersionScore(request, candidate) ==
    IF request.major # NoNum /\ request.minor # NoNum
    THEN IF /\ candidate.major # NoNum /\ candidate.minor # NoNum
            /\ candidate.major = request.major
            /\ candidate.minor = request.minor
         THEN 30
         ELSE IF candidate.major # NoNum /\ candidate.major = request.major
              THEN 10
              ELSE 0 - 50
    ELSE IF request.major # NoNum /\ candidate.major = request.major THEN 10
    ELSE 0

ThinkingScore(request, candidate) ==
    IF request.thinking THEN (IF candidate.thinking THEN 5 ELSE 0 - 5)
    ELSE IF candidate.thinking THEN 0 - 2
    ELSE 0

DateScore(request, candidate) ==
    IF /\ request.date # NoDate /\ candidate.date # NoDate
       /\ request.date = candidate.date
    THEN 2 ELSE 0

\* model_resolver.rs score_candidate
claude_score_candidate(request, candidate) ==
    FamilyScore(request, candidate) + VersionScore(request, candidate)
        + ThinkingScore(request, candidate) + DateScore(request, candidate)

\* a candidate the resolver may pick: not avoided, and a "claude" id when
\* the request is one
Eligible(c, request_is_claude, avoid_norm) ==
    /\ normalize_token(c) \notin avoid_norm
    /\ request_is_claude => contains(normalize_token(c), <<"c", "l", "a", "u", "d", "e">>)

HasFamilyMatch(request, candidates, request_is_claude, avoid_norm) ==
    /\ request.family # NoKeyword
    /\ \E i \in DOMAIN candidates :
          /\ Eligible(candidates[i], request_is_claude, avoid_norm)
          /\ parse_features(candidates[i], FALSE).family = request.family

NoChoice == [some |-> FALSE, m |-> <<>>, s |-> 0]

Replaces(s, c, best) ==
    \/ ~best.some
    \/ s > best.s
    \/ /\ s = best.s
       /\ \/ Len(c) < Len(best.m)
          \/ Len(c) = Len(best.m) /\ LexLess(c, best.m)

Scored(s, c, best) ==
    IF Replaces(s, c, best) THEN [some |-> TRUE, m |-> c, s |-> s] ELSE best

RECURSIVE BestByScore(_, _, _, _, _, _)
BestByScore(request, candidates, request_is_claude, avoid_norm, family_only, best) ==
    IF candidates = <<>> THEN best
    ELSE IF \/ ~Eligible(Head(candidates), request_is_claude, avoid_norm)
            \/ /\ family_only
               /\ parse_features(Head(candidates), FALSE).family # request.family
         THEN BestByScore(request, Tail(candidates), request_is_claude,
                          avoid_norm, family_only, best)
         ELSE BestByScore(request, Tail(candidates), request_is_claude,
                          avoid_norm, family_only,
                          Scored(claude_score_candidate(
                                     request,
                                     parse_features(Head(candidates), FALSE)),
                                 Head(candidates), best))

ExactHits(req_norm, candidates, request_is_claude, avoid_norm) ==
    SelectSeq(candidates,
              LAMBDA c : /\ Eligible(c, request_is_claude, avoid_norm)
                         /\ normalize_token(c) = req_norm)

ChooseFor(request_model, request, candidates, request_is_claude, avoid_norm, hits) ==
    IF hits # <<>> THEN [some |-> TRUE, m |-> Head(hits), s |-> 0]
    ELSE BestByScore(request, candidates, request_is_claude, avoid_norm,
                     HasFamilyMatch(request, candidates, request_is_claude,
                                    avoid_norm),
                     NoChoice)

choose_best_model_with_avoid(request_model, thinking_from_body, candidates, avoid_norm) ==
    ChooseFor(request_model, parse_features(request_model, thinking_from_body),
              candidates, detect_model_family(request_model) = "Claude",
              avoid_norm,
              ExactHits(normalize_token(request_model), candidates,
                        detect_model_family(request_model) = "Claude",
                        avoid_norm))

determine_writeback_key(original_request_model, thinking_from_body) ==
    IF thinking_from_body \/ detect_thinking(original_request_model)
    THEN "ANTHROPIC_REASONING_MODEL"
    ELSE IF detect_family(original_request_model) = <<"h", "a", "i", "k", "u">>
         THEN "ANTHROPIC_DEFAULT_HAIKU_MODEL"
    ELSE IF detect_family(original_request_model) = <<"s", "o", "n", "n", "e", "t">>
         THEN "ANTHROPIC_DEFAULT_SONNET_MODEL"
    ELSE IF detect_family(original_request_model) = <<"o", "p", "u", "s">>
         THEN "ANTHROPIC_DEFAULT_OPUS_MODEL"
    ELSE "ANTHROPIC_MODEL"

read_env_model(penv, key) == penv[key]

is_model_in_list(model, candidates) ==
    \E i \in DOMAIN candidates :
        normalize_token(candidates[i]) = normalize_token(model)

\* fetch_models_via_python_proxy: the ids of the answer, trimmed, empty ones
\* and repetitions (ignoring case) skipped; no id at all is an error
RECURSIVE TrimmedIds(_, _)
TrimmedIds(data, out) ==
    IF data = <<>> THEN out
    ELSE IF \/ trim(Head(data)) = <<>>
            \/ \E i \in DOMAIN out :
                  normalize_token(out[i]) = normalize_token(trim(Head(data)))
         THEN TrimmedIds(Tail(data), out)
         ELSE TrimmedIds(Tail(data), Append(out, trim(Head(data))))

fetch_models_via_python_proxy(reply) ==
    FetchResult(reply.ok, TrimmedIds(reply.data, <<>>))

Listed(models, cache) == [some |-> TRUE, models |-> models, cache |-> cache]
NotListed(cache) == [some |-> FALSE, models |-> <<>>, cache |-> cache]

Fetched(cache, got, t) ==
    IF got.ok
    THEN Listed(got.list, [cache EXCEPT !.pc = "cached", !.models = got.list,
                                        !.fetched_at = t, !.failed = FALSE])
    ELSE NotListed([cache EXCEPT !.failed = TRUE, !.failed_at = t])

\* model_resolver.rs get_or_fetch_model_list: the list, and MODEL_LIST_CACHE
\* and MODEL_LIST_FAILURES after the call
get_or_fetch_model_list(cache, reply, t) ==
    IF cache.pc = "cached" /\ t - cache.fetched_at <= MODEL_LIST_TTL
    THEN Listed(cache.models, cache)
    ELSE IF cache.failed /\ t - cache.failed_at <= MODEL_LIST_FAILURE_COOLDOWN
         THEN NotListed(cache)
         ELSE Fetched(cache, fetch_models_via_python_proxy(reply), t)

\* str::trim_end_matches('/')
RECURSIVE trim_end_slashes(_)
trim_end_slashes(s) ==
    IF s # <<>> /\ s[Len(s)] = "/"
    THEN trim_end_slashes(SubSeq(s, 1, Len(s) - 1))
    ELSE s

NoUrl == <<>>

extract_anthropic_base_url(penv) ==
    IF penv["ANTHROPIC_BASE_URL"] = <<>> THEN NoUrl
    ELSE trim_end_slashes(trim(penv["ANTHROPIC_BASE_URL"]))

NoModelWriteback ==
    [some |-> FALSE, env_key |-> None, value |-> <<>>, from_model |-> <<>>,
     to_model |-> <<>>]

ModelWriteback(env_key, chosen, current_model) ==
    [some |-> TRUE, env_key |-> env_key, value |-> chosen,
     from_model |-> current_model, to_model |-> chosen]

Resolved(body, writeback, cache) ==
    [body |-> body, wb |-> writeback, cache |-> cache]

\* "existing ... map(|v| normalize(v) != normalize(chosen)).unwrap_or(true)"
needs_writeback(existing, chosen) ==
    existing = <<>> \/ normalize_token(existing) # normalize_token(chosen)

ResolveChosen(penv, original_request_model, body, chosen, cache) ==
    IF ~chosen.some THEN Resolved(body, NoModelWriteback, cache)
    ELSE IF normalize_token(chosen.m) = normalize_token(body.model)
         THEN Resolved(body, NoModelWriteback, cache)
    ELSE IF needs_writeback(
                read_env_model(penv, determine_writeback_key(
                                         original_request_model, body.thinking)),
                chosen.m)
         THEN Resolved([body EXCEPT !.model = chosen.m],
                       ModelWriteback(determine_writeback_key(
                                          original_request_model, body.thinking),
                                      chosen.m, body.model),
                       cache)
         ELSE Resolved([body EXCEPT !.model = chosen.m], NoModelWriteback,
                       cache)

\* a resolver that never takes the body's model for listed
listed_never_used(model, candidates, avoid_norm) == FALSE

\* "is_model_in_list(current, models) && !avoid_norm.contains(current)"
ListedModelUsed(model, candidates, avoid_norm) ==
    /\ is_model_in_list(model, candidates)
    /\ normalize_token(model) \notin avoid_norm

ResolveWithList(penv, original_request_model, body, avoid_norm, got) ==
    IF ~got.some \/ body.model = NoModelField
    THEN Resolved(body, NoModelWriteback, got.cache)
    ELSE IF ListedModelUsed(body.model, got.models, avoid_norm)
         THEN Resolved(body, NoModelWriteback, got.cache)
         ELSE ResolveChosen(penv, original_request_model, body,
                            choose_best_model_with_avoid(
                                original_request_model, body.thinking,
                                got.models, avoid_norm),
                            got.cache)

is_claudeish(original_request_model, request_features) ==
    \/ request_features.family # NoKeyword
    \/ /\ contains(to_lowercase(original_request_model), <<"c", "l", "a", "u", "d", "e">>)
       /\ request_features.major # NoNum \/ request_features.minor # NoNum

\* the body, the pending writeback, and the list cache after the call
resolve_claude_model_in_body_with_avoid(penv, original_request_model, body, avoid_models, cache, reply, t) ==
    IF ~is_claudeish(original_request_model,
                     parse_features(original_request_model, FALSE))
    THEN Resolved(body, NoModelWriteback, cache)
    ELSE IF extract_anthropic_base_url(penv) = NoUrl
         THEN Resolved(body, NoModelWriteback, cache)
         ELSE ResolveWithList(penv, original_request_model, body,
                              {normalize_token(m) : m \in avoid_models},
                              get_or_fetch_model_list(cache, reply, t))

resolve_claude_model_in_body(penv, original_request_model, body, cache, reply, t) ==
    resolve_claude_model_in_body_with_avoid(penv, original_request_model, body,
                                            {}, cache, reply, t)

\* the texts is_model_unavailable_error looks for; the third stands for the
\* Chinese "no channel available"
UnavailableMarkers ==
    {<<"m", "o", "d", "e", "l", "_", "n", "o", "t", "_", "f", "o", "u", "n", "d">>, <<"m", "o", "d", "e", "l", " ", "n", "o", "t", " ", "f", "o", "u", "n", "d">>, <<"w", "u", " ", "k", "e", "y", "o", "n", "g", " ", "q", "u", "d", "a", "o">>, <<"d", "i", "s", "t", "r", "i", "b", "u", "t", "o", "r">>}

HasMarker(lower) == \E m \in UnavailableMarkers : contains(lower, m)

\* a test of the body text alone
unavailable_at_any_status(status_code, text) ==
    \/ HasMarker(to_lowercase(text.raw))
    \/ contains(to_lowercase(text.code), <<"m", "o", "d", "e", "l", "_", "n", "o", "t", "_", "f", "o", "u", "n", "d">>)
    \/ HasMarker(to_lowercase(text.message))

\* RequestForwarder::is_model_unavailable_error; a body text is its bytes
\* and, when it is JSON, the decoded error.code and error.message
is_model_unavailable_error(status_code, text) ==
    IF status_code \in {429, 401, 403} THEN FALSE
    ELSE \/ HasMarker(to_lowercase(text.raw))
         \/ contains(to_lowercase(text.code), <<"m", "o", "d", "e", "l", "_", "n", "o", "t", "_", "f", "o", "u", "n", "d">>)
         \/ HasMarker(to_lowercase(text.message))

(***************************************************************************)
(* RequestForwarder::forward for a Claude provider and /v1/messages: the   *)
(* requests it sends upstream, the error it returns, the writeback it      *)
(* spawns.  The provider holds credentials.                                *)
(***************************************************************************)
ClaudeProvider == "x"
ClaudeApiKey == "sk-x"

ConfigError == [variant |-> "ConfigError", status |-> 0, marks |-> {}]

NoBodyText == [raw |-> <<>>, code |-> <<>>, message |-> <<>>, read |-> FALSE]
BodyText(raw, code, message) ==
    [raw |-> raw, code |-> code, message |-> message, read |-> TRUE]

Answer2xx == [kind |-> "2xx", code |-> 200, text |-> NoBodyText]
AnswerStatus(code, text) == [kind |-> "status", code |-> code, text |-> text]
AnswerFailed(kind) == [kind |-> kind, code |-> 0, text |-> NoBodyText]
NoAnswer == [kind |-> "none", code |-> 0, text |-> NoBodyText]

\* the closure build_request: the request for a body
build_request(penv, json_body) ==
    [provider |-> ClaudeProvider, api_key |-> ClaudeApiKey,
     target |-> penv["ANTHROPIC_BASE_URL"], endpoint |-> "/v1/messages",
     model |-> json_body.model, thinking |-> json_body.thinking]

SendError(kind) == IF kind = "timeout" THEN TimeoutError ELSE ForwardFailedError

\* pending: the writeback pending when the first request is sent;
\* spawned: the writeback handed to writeback_provider_env
Forwarded(err, sends, answers, pending, spawned, cache) ==
    [err |-> err, sends |-> sends, answers |-> answers, pending |-> pending,
     spawned |-> spawned, cache |-> cache]

AfterRetrySend(penv, r, retry, up) ==
    CASE up.second.kind = "2xx" ->
            Forwarded(NoError,
                      <<build_request(penv, r.body),
                        build_request(penv, retry.body)>>,
                      <<up.first, up.second>>, r.wb, retry.wb, retry.cache)
      [] up.second.kind = "status" ->
            Forwarded(UpstreamError(up.second.code),
                      <<build_request(penv, r.body),
                        build_request(penv, retry.body)>>,
                      <<up.first, up.second>>, r.wb, NoModelWriteback,
                      retry.cache)
      [] OTHER ->
            Forwarded(SendError(up.second.kind),
                      <<build_request(penv, r.body),
                        build_request(penv, retry.body)>>,
                      <<up.first, up.second>>, r.wb, NoModelWriteback,
                      retry.cache)

\* "should_retry = retry_model != current_model"
AfterAvoid(penv, r, retry, up) ==
    IF retry.body.model # r.body.model
    THEN AfterRetrySend(penv, r, retry, up)
    ELSE Forwarded(UpstreamError(up.first.code),
                   <<build_request(penv, r.body)>>, <<up.first>>, r.wb,
                   NoModelWriteback, retry.cache)

TriesOtherModel(body, r, up) ==
    /\ body.model # NoModelField
    /\ up.first.text.read
    /\ is_model_unavailable_error(up.first.code, up.first.text)
    /\ r.body.model # NoModelField

AfterFirstSend(penv, body, r, listing, up, t) ==
    CASE up.first.kind = "2xx" ->
            Forwarded(NoError, <<build_request(penv, r.body)>>, <<up.first>>,
                      r.wb, r.wb, r.cache)
      [] up.first.kind = "status" ->
            IF TriesOtherModel(body, r, up)
            THEN AfterAvoid(penv, r,
                            resolve_claude_model_in_body_with_avoid(
                                penv, body.model, r.body, {r.body.model},
                                r.cache, listing, t),
                            up)
            ELSE Forwarded(UpstreamError(up.first.code),
                           <<build_request(penv, r.body)>>, <<up.first>>,
                           r.wb, NoModelWriteback, r.cache)
      [] OTHER ->
            Forwarded(SendError(up.first.kind),
                      <<build_request(penv, r.body)>>, <<up.first>>, r.wb,
                      NoModelWriteback, r.cache)

FinalBody(penv, body, mapped_body, cache, listing, t) ==
    IF body.model # NoModelField
    THEN resolve_claude_model_in_body(penv, body.model, mapped_body, cache,
                                      listing, t)
    ELSE Resolved(mapped_body, NoModelWriteback, cache)

forward_messages(penv, body, cache, listing, up, t) ==
    IF penv["ANTHROPIC_BASE_URL"] = <<>>
    THEN Forwarded(ConfigError, <<>>, <<>>, NoModelWriteback,
                   NoModelWriteback, cache)
    ELSE AfterFirstSend(penv, body,
                        FinalBody(penv, body, apply_model_mapping(body, penv),
                                  cache, listing, t),
                        listing, up, t)

(***************************************************************************)
(* Claude requests through one provider: a forward, then the writeback to  *)
(* the provider's env it spawned.                                          *)
(***************************************************************************)
MaxForwards == 1        \* forward calls in the Claude runs

ClaudeEnv(url, haiku, sonnet, opus, default, reasoning) ==
    [k \in ClaudeEnvKeys |->
        CASE k = "ANTHROPIC_BASE_URL" -> url
          [] k = "ANTHROPIC_DEFAULT_HAIKU_MODEL" -> haiku
          [] k = "ANTHROPIC_DEFAULT_SONNET_MODEL" -> sonnet
          [] k = "ANTHROPIC_DEFAULT_OPUS_MODEL" -> opus
          [] k = "ANTHROPIC_MODEL" -> default
          [] OTHER -> reasoning]

ClaudeUrl == <<"h", "t", "t", "p", "s", ":", "/", "/", "u", "p", ".", "e", "x", "a", "m", "p", "l", "e", "/">>

ClaudeEnvs ==
    {ClaudeEnv(ClaudeUrl, <<>>, <<>>, <<>>, <<>>, <<>>),
     ClaudeEnv(ClaudeUrl, <<>>, <<"c", "u", "r", "s", "o", "r", "2", "-", "c", "l", "a", "u", "d", "e", "-", "4", ".", "5", "-", "s", "o", "n", "n", "e", "t">>, <<>>, <<>>, <<>>),
     ClaudeEnv(ClaudeUrl, <<>>, <<"c", "l", "a", "u", "d", "e", "-", "4", ".", "5">>, <<>>, <<>>, <<>>),
     ClaudeEnv(ClaudeUrl, <<>>, <<"c", "l", "a", "u", "d", "e", "-", "h", "a", "i", "k", "u", "-", "4", "-", "5">>, <<>>, <<"g", "l", "m", "-", "4", ".", "6">>, <<>>),
     ClaudeEnv(ClaudeUrl, <<>>, <<"c", "u", "r", "s", "o", "r", "2", "-", "c", "l", "a", "u", "d", "e", "-", "4", ".", "5", "-", "s", "o", "n", "n", "e", "t">>, <<>>, <<>>,
               <<"c", "l", "a", "u", "d", "e", "-", "s", "o", "n", "n", "e", "t", "-", "4", "-", "5", "-", "t", "h", "i", "n", "k", "i", "n", "g">>),
     ClaudeEnv(<<>>, <<>>, <<"c", "u", "r", "s", "o", "r", "2", "-", "c", "l", "a", "u", "d", "e", "-", "4", ".", "5", "-", "s", "o", "n", "n", "e", "t">>, <<>>, <<>>, <<>>)}

ClaudeBodies ==
    [model : {<<"c", "l", "a", "u", "d", "e", "-", "s", "o", "n", "n", "e", "t", "-", "4", "-", "5", "-", "2", "0", "2", "5", "0", "9", "2", "9">>, <<"C", "l", "a", "u", "d", "e", "-", "h", "a", "i", "k", "u", "-", "4", "-", "5">>, <<"g", "l", "m", "-", "4", ".", "6">>},
     thinking : BOOLEAN]
        \cup {[model |-> NoModelField, thinking |-> FALSE]}

\* what /v1/models answers
ClaudeListings ==
    {[ok |-> TRUE,
      data |-> <<<<"c", "u", "r", "s", "o", "r", "2", "-", "c", "l", "a", "u", "d", "e", "-", "4", ".", "5", "-", "s", "o", "n", "n", "e", "t">>, <<"c", "l", "a", "u", "d", "e", "-", "h", "a", "i", "k", "u", "-", "4", "-", "5">>,
                 <<"c", "l", "a", "u", "d", "e", "-", "s", "o", "n", "n", "e", "t", "-", "4", "-", "5", "-", "t", "h", "i", "n", "k", "i", "n", "g">>>>],
     [ok |-> TRUE,
      data |-> <<<<"c", "l", "a", "u", "d", "e", "-", "s", "o", "n", "n", "e", "t", "-", "4", ".", "5">>, <<" ", "c", "l", "a", "u", "d", "e", "-", "s", "o", "n", "n", "e", "t", "-", "4", "-", "5">>, <<"g", "l", "m", "-", "4", ".", "6">>,
                 <<"C", "l", "a", "u", "d", "e", "-", "S", "o", "n", "n", "e", "t", "-", "4", "-", "5">>>>],
     [ok |-> FALSE, data |-> <<>>]}

\* the body of an error answer; "~" stands for an escape the JSON decoder
\* resolves
NotFoundText == BodyText(<<"m", "o", "d", "e", "l", "_", "n", "o", "t", "_", "f", "o", "u", "n", "d">>, <<>>, <<>>)
EscapedText == BodyText(<<"m", "o", "d", "e", "l", "~", "n", "o", "t", "~", "f", "o", "u", "n", "d">>, <<"M", "o", "d", "e", "l", "_", "n", "o", "t", "_", "f", "o", "u", "n", "d">>, <<>>)
PlainText == BodyText(<<"i", "n", "t", "e", "r", "n", "a", "l", " ", "e", "r", "r", "o", "r">>, <<>>, <<>>)

FirstAnswers ==
    {Answer2xx, AnswerFailed("timeout"), AnswerStatus(404, NotFoundText),
     AnswerStatus(429, NotFoundText), AnswerStatus(401, NotFoundText),
     AnswerStatus(403, NotFoundText), AnswerStatus(503, EscapedText),
     AnswerStatus(500, PlainText), AnswerStatus(404, NoBodyText)}

SecondAnswers ==
    {Answer2xx, AnswerFailed("connect"), AnswerStatus(404, NotFoundText)}

ClaudeReplies == [first : FirstAnswers, second : SecondAnswers]

IdleForward ==
    [pc |-> "idle", n |-> 0, at |-> 0, penv |-> <<>>, body |-> <<>>,
     listing |-> <<>>, mapped |-> <<>>, out |-> <<>>]

InitClaude ==
    /\ InitProxy({StoreConfig({"claude"}, {"claude"}, {"x"}, "x", 0)})
    /\ san = NoSan
    /\ modelCache = EmptyCache
    /\ call = IdleForward
    /\ env \in ClaudeEnvs

ForwardRecord(c, penv, body, listing, out, t) ==
    [pc |-> "resolved", n |-> c.n + 1, at |-> t, penv |-> penv,
     body |-> body, listing |-> listing,
     mapped |-> apply_model_mapping(body, penv).model, out |-> out]

\* one /v1/messages request forwarded to the provider
ForwardClaude(body, listing, up) ==
    /\ call.n < MaxForwards
    /\ call' = ForwardRecord(call, env, body, listing,
                             forward_messages(env, body, modelCache, listing,
                                              up, now),
                             now)
    /\ modelCache' = call'.out.cache
    /\ UNCHANGED <<proxyVars, san, env>>

\* the spawned writeback_provider_env sets the key in the provider's env
PersistModelWriteback ==
    /\ call.pc = "resolved" /\ call.out.spawned.some
    /\ env' = [env EXCEPT ![call.out.spawned.env_key] = call.out.spawned.value]
    /\ call' = [call EXCEPT !.pc = "persisted", !.at = now]
    /\ UNCHANGED <<proxyVars, san, modelCache>>

NextClaude ==
    \/ \E body \in ClaudeBodies, listing \in ClaudeListings,
          up \in ClaudeReplies : ForwardClaude(body, listing, up)
    \/ PersistModelWriteback

SpecClaude == InitClaude /\ [][NextClaude]_vars

(***************************************************************************)
(* The explicit mapping and the resolver on one forwarded request.         *)
(***************************************************************************)
ModelKeys == ClaudeEnvKeys \ {"ANTHROPIC_BASE_URL"}

Mapped == call.pc # "idle" /\ call.mapped # call.body.model

ClaudeKeywords == {<<"h", "a", "i", "k", "u">>, <<"s", "o", "n", "n", "e", "t">>, <<"o", "p", "u", "s">>}

\* the first of haiku, sonnet, opus the id contains
FirstKeyword(model) ==
    IF contains(to_lowercase(model), <<"h", "a", "i", "k", "u">>) THEN <<"h", "a", "i", "k", "u">>
    ELSE IF contains(to_lowercase(model), <<"s", "o", "n", "n", "e", "t">>) THEN <<"s", "o", "n", "n", "e", "t">>
    ELSE <<"o", "p", "u", "s">>

HasKeyword(model) ==
    \E k \in ClaudeKeywords : contains(to_lowercase(model), k)

FamilyKept(original, mapped) ==
    \/ detect_model_family(original) = "Other"
    \/ detect_model_family(mapped) = detect_model_family(original)

KeywordKept(original, mapped) ==
    (detect_model_family(original) = "Claude" /\ HasKeyword(original))
        => contains(to_lowercase(mapped), FirstKeyword(original))

KeywordKeptOrAbsent(original, mapped) ==
    (detect_model_family(original) = "Claude" /\ HasKeyword(original))
        => \/ ~HasKeyword(mapped)
           \/ contains(to_lowercase(mapped), FirstKeyword(original))

\* the configured mappings map_model tries for the request, in its order
TriedMappings ==
    MappingCandidates(from_provider(call.penv), to_lowercase(call.body.model),
                      call.body.thinking)

\* every mapping tried before position i failed a test, under the keyword
\* test given
EarlierDiscarded(i, KeywordTest(_, _)) ==
    \A j \in 1..(i - 1) :
        ~(/\ FamilyKept(call.body.model, TriedMappings[j])
          /\ KeywordTest(call.body.model, TriedMappings[j]))

UsesFirstPassing(KeywordTest(_, _)) ==
    IF \E i \in DOMAIN TriedMappings :
          /\ FamilyKept(call.body.model, TriedMappings[i])
          /\ KeywordTest(call.body.model, TriedMappings[i])
    THEN \E i \in DOMAIN TriedMappings :
            /\ call.mapped = TriedMappings[i]
            /\ FamilyKept(call.body.model, call.mapped)
            /\ KeywordTest(call.body.model, call.mapped)
            /\ EarlierDiscarded(i, KeywordTest)
    ELSE call.mapped = call.body.model

WithMapping ==
    /\ call.pc # "idle"
    /\ call.body.model # NoModelField
    /\ has_mapping(from_provider(call.penv))

\* C26: map_model returns a configured mapping only if it is in the family of
\* the original id (when that family is classifiable) and, when the original
\* Claude id contains haiku, sonnet or opus, the mapping keeps that keyword;
\* a mapping failing either test is discarded for the next one, and at last
\* the original id is used.
C26_MappingKeepsFamilyAndKeyword ==
    WithMapping => UsesFirstPassing(KeywordKept)

\* C26, as the code has it: the mapping is in the family of the original id
\* and, when the original Claude id contains haiku, sonnet or opus, either
\* contains none of the three keywords or contains the original's; the first
\* mapping that passes is returned, the original id when none does.
C26_MappingKeepsFamilyAndKeywordOrNone ==
    WithMapping => UsesFirstPassing(KeywordKeptOrAbsent)

\* a sonnet request is mapped to an id without any of the three keywords
C26_Witness ==
    /\ Mapped
    /\ FirstKeyword(call.body.model) = <<"s", "o", "n", "n", "e", "t">>
    /\ ~HasKeyword(call.mapped)
    /\ detect_model_family(call.mapped) = "Claude"

\* a configured mapping was discarded and the original id kept
C26_MappingDiscardedReached ==
    /\ WithMapping
    /\ TriedMappings # <<>>
    /\ call.mapped = call.body.model
    /\ \A i \in DOMAIN TriedMappings : TriedMappings[i] # call.body.model

SameVersion(a, b) ==
    /\ extract_major_minor(a).major # NoNum
    /\ extract_major_minor(a) = extract_major_minor(b)

ThinkingSonnetOf(model, candidates) ==
    {i \in DOMAIN candidates :
        /\ detect_thinking(candidates[i])
        /\ detect_family(candidates[i]) = <<"s", "o", "n", "n", "e", "t">>
        /\ SameVersion(model, candidates[i])}

OnlySonnetMapping(penv) ==
    /\ penv["ANTHROPIC_BASE_URL"] # <<>>
    /\ penv["ANTHROPIC_DEFAULT_SONNET_MODEL"] # <<>>
    /\ \A k \in ModelKeys \ {"ANTHROPIC_DEFAULT_SONNET_MODEL"} : penv[k] = <<>>

\* a thinking request for a sonnet id; the env holds only the sonnet mapping,
\* which is in the upstream list, and the list has a thinking sonnet of the
\* request's version
ThinkingSonnetCase ==
    /\ call.pc = "resolved"
    /\ call.body.thinking
    /\ call.body.model # NoModelField
    /\ detect_family(call.body.model) = <<"s", "o", "n", "n", "e", "t">>
    /\ OnlySonnetMapping(call.penv)
    /\ call.out.cache.pc = "cached"
    /\ is_model_in_list(call.penv["ANTHROPIC_DEFAULT_SONNET_MODEL"],
                        call.out.cache.models)
    /\ ThinkingSonnetOf(call.body.model, call.out.cache.models) # {}
    /\ call.out.sends # <<>>

\* C25: for a thinking request whose model is a sonnet id, with only
\* ANTHROPIC_DEFAULT_SONNET_MODEL set (to a listed model) and a thinking
\* sonnet of the same version in the upstream list, the thinking variant is
\* sent and a writeback for ANTHROPIC_REASONING_MODEL is pending.
C25_ThinkingVariantSent ==
    ThinkingSonnetCase =>
        /\ \E i \in ThinkingSonnetOf(call.body.model, call.out.cache.models) :
              call.out.sends[1].model = call.out.cache.models[i]
        /\ call.out.pending.some
        /\ call.out.pending.env_key = "ANTHROPIC_REASONING_MODEL"

\* C25, as the code has it: in that case the configured sonnet mapping, being
\* a sonnet id of the upstream list, is sent as it is and no writeback is
\* pending.
C25_ListedMappingSent ==
    (/\ ThinkingSonnetCase
     /\ contains(to_lowercase(call.penv["ANTHROPIC_DEFAULT_SONNET_MODEL"]),
                 <<"s", "o", "n", "n", "e", "t">>)
     /\ detect_model_family(call.penv["ANTHROPIC_DEFAULT_SONNET_MODEL"])
            = "Claude")
        => /\ call.out.sends[1].model
                = call.penv["ANTHROPIC_DEFAULT_SONNET_MODEL"]
           /\ ~call.out.pending.some

\* scenario S4 has been forwarded
C25_Witness ==
    /\ ThinkingSonnetCase
    /\ call.body.model = <<"c", "l", "a", "u", "d", "e", "-", "s", "o", "n", "n", "e", "t", "-", "4", "-", "5", "-", "2", "0", "2", "5", "0", "9", "2", "9">>
    /\ call.penv["ANTHROPIC_DEFAULT_SONNET_MODEL"] = <<"c", "u", "r", "s", "o", "r", "2", "-", "c", "l", "a", "u", "d", "e", "-", "4", ".", "5", "-", "s", "o", "n", "n", "e", "t">>
    /\ call.out.cache.models
          = <<<<"c", "u", "r", "s", "o", "r", "2", "-", "c", "l", "a", "u", "d", "e", "-", "4", ".", "5", "-", "s", "o", "n", "n", "e", "t">>, <<"c", "l", "a", "u", "d", "e", "-", "h", "a", "i", "k", "u", "-", "4", "-", "5">>,
              <<"c", "l", "a", "u", "d", "e", "-", "s", "o", "n", "n", "e", "t", "-", "4", "-", "5", "-", "t", "h", "i", "n", "k", "i", "n", "g">>>>
    /\ call.out.sends[1].model = <<"c", "u", "r", "s", "o", "r", "2", "-", "c", "l", "a", "u", "d", "e", "-", "4", ".", "5", "-", "s", "o", "n", "n", "e", "t">>

\* the body text of an answer names the model as unavailable
IndicatesUnavailable(answer) ==
    /\ answer.text.read
    /\ \/ HasMarker(to_lowercase(answer.text.raw))
       \/ contains(to_lowercase(answer.text.code), <<"m", "o", "d", "e", "l", "_", "n", "o", "t", "_", "f", "o", "u", "n", "d">>)
       \/ HasMarker(to_lowercase(answer.text.message))

OnlyModelReplaced(first, second) ==
    /\ second.model # first.model
    /\ [second EXCEPT !.model = first.model] = first

\* C29: one forward() to a Claude provider sends at most one more request
\* after a non-2xx answer, and only when the status is not 401, 403 or 429,
\* the body says the model is unavailable, and the resolver asked to avoid
\* the current model picked another one of the list; that request goes to
\* the same provider, URL and credentials with only the model replaced.
C29_OneMoreRequestOtherModel ==
    call.pc # "idle" =>
        /\ Len(call.out.sends) <= 2
        /\ Len(call.out.sends) = 2 =>
              /\ call.out.answers[1].kind = "status"
              /\ call.out.answers[1].code \notin {401, 403, 429}
              /\ IndicatesUnavailable(call.out.answers[1])
              /\ OnlyModelReplaced(call.out.sends[1], call.out.sends[2])
              /\ is_model_in_list(call.out.sends[2].model,
                                  call.out.cache.models)
              /\ normalize_token(call.out.sends[2].model)
                    # normalize_token(call.out.sends[1].model)

\* a second request went out and was answered 2xx
C29_Witness ==
    /\ call.pc = "resolved"
    /\ Len(call.out.sends) = 2
    /\ call.out.answers[2].kind = "2xx"
    /\ call.out.err = NoError

\* an unavailable-model answer with status 429 was not followed by a request
C29_NoRetryAt429Reached ==
    /\ call.pc = "resolved"
    /\ Len(call.out.sends) = 1
    /\ call.out.answers[1].code = 429
    /\ IndicatesUnavailable(call.out.answers[1])

(***************************************************************************)
(* The counters of ProxyStatus over three requests in flight at once to a  *)
(* chain of two providers.                                                 *)
(***************************************************************************)
MaxCountedRequests == 3 \* inbound requests in the counter runs

CountStores == {StoreConfig({"claude"}, {"claude"}, {"a", "b"}, None, 0)}

CountReplies ==
    {Reply("2xx", FALSE, "none", FALSE), Reply("transport", FALSE, "none", FALSE)}

InitCount == InitWith(CountStores)

NextCount ==
    \/ \E r \in TaskSlots, app \in Apps :
          ReqSelectUpTo(r, app, MaxCountedRequests)
    \/ \E r \in TaskSlots : ReqStart(r)
    \/ \E r \in TaskSlots : ReqDispatch(r)
    \/ \E r \in TaskSlots, up \in CountReplies : ReqComplete(r, up)
    \/ \E app \in Apps, key \in SupplierKeys, ttl \in TtlChoices :
          SetTestOverride(app, key, "run1", ttl)

SpecCount == InitCount /\ [][NextCount]_vars

\* C38: in every reachable ProxyStatus success_requests + failed_requests is
\* at most total_requests, also after requests whose every provider was
\* refused by its breaker and after requests under a test override.
C38_TerminalCountsWithinTotal ==
    stats.success_requests + stats.failed_requests <= stats.total_requests

\* more requests have been counted as failed than were counted at all
C38_MoreFailedThanTotalReached ==
    stats.failed_requests > stats.total_requests

(***************************************************************************)
(* The router serving two apps: claude and codex requests share the one    *)
(* test_override slot.                                                     *)
(***************************************************************************)
AppStores ==
    {StoreConfig({"claude", "codex"}, {"claude", "codex"}, {"a", "x"}, None, 0)}

InitApps == InitWith(AppStores)

NextApps ==
    \/ \E app \in Apps : SelectProviders(app)
    \/ \E p \in ProviderIds, err \in {NoError, AuthError} :
          RecordResult(p, TRUE, err = NoError, err)
    \/ \E app \in Apps, key \in SupplierKeys, ttl \in TtlChoices :
          SetTestOverride(app, key, "run1", ttl)
    \/ Tick

SpecApps == InitApps /\ [][NextApps]_vars

\* C39: an unexpired test override set for one app stays installed over a
\* select_providers call for another app.
C39_OverrideSurvivesOtherApp ==
    [][\A a, b \in Apps :
          (OverrideActive(a) /\ a # b /\ SelectProviders(b))
              => testOverride' = testOverride]_vars

\* a select_providers call for codex has just run and the override that was
\* set for claude, 20 s of life left, is gone
C39_OverrideDroppedReached ==
    /\ hist.op = "select" /\ hist.app = "codex"
    /\ hist.overrides = 1
    /\ now = 0
    /\ testOverride = NoOverride
    /\ testResults["run1"] = NoResult

(***************************************************************************)
(* Concurrent select_providers calls on one tier.  A call first gathers    *)
(* the tier's candidates (suppliers, URLs, breakers), then takes the write *)
(* lock of round_robin_counters, reads and advances the key-rr counter and *)
(* rotates its candidates.  bench[t] is the position of call t; hist.base  *)
(* holds the chain of the call that held the counter lock before.          *)
(***************************************************************************)
MaxRotations == 3       \* select_providers calls in the rotation runs

RRStores == {StoreConfig({"claude"}, {"claude"}, {"a", "b", "f"}, None, 0)}

InitRR == InitWith(RRStores)

InLevel(fp, app, tier) ==
    FilterSeq(fp, {p \in SeqToSet(fp) : SortIndexOrDefault(p) = tier})

\* the counter as the call saw it before it took the lock
CounterSeen(t) == bench[t].seen

\* "*counter" inside the write lock
CounterRead(t) == rr[bench[t].key]

\* the tier loop of the call up to the sorted candidates; a call that finds
\* no candidate skips the counter and returns its Config error
SelectGather(t, app, tier) ==
    /\ bench[t].pc \in {"idle", "rotated"}
    /\ app \in store.apps /\ store.failover[app]
    /\ hist.runs < MaxRotations
    /\ \E oracle \in OraclesOver(ProbeKinds, store, app, now) :
          LET ov  == get_active_test_override(RouterState, app, now)
              fp  == get_failover_providers(store, app)
              got == TierSuppliers(ov.rs, app, tier, InLevel(fp, app, tier),
                                   ov.ov, now, oracle)
          IN  /\ SetRouterState(got.rs)
              /\ bench' = [bench EXCEPT ![t] =
                              IF got.cands = {} THEN IdleTask
                              ELSE [pc |-> "gathered", kind |-> "rotate",
                                    app |-> app, key |-> <<app, tier>>,
                                    cands |-> got.cands,
                                    seen |-> rr[<<app, tier>>],
                                    start |-> 0]]
    /\ hist' = [hist EXCEPT !.op = "gather", !.runs = @ + 1]
    /\ UNCHANGED <<status, stats, wb, resolverVars, now, store, persisted, req,
                   benchLock>>

\* the counter block and the rest of the call: rotate, record the active
\* level, return the chain
SelectRotate(t) ==
    /\ bench[t].pc = "gathered"
    /\ LET app == bench[t].app
           k   == bench[t].key
           n   == Cardinality(bench[t].cands)
           got == RotateTier([rs    |-> [RouterState EXCEPT
                                            !.rr[k] = CounterRead(t)],
                              cands |-> bench[t].cands], k)
           res == ChainResult([rs |-> got.rs, chain |-> got.cands], app)
       IN  /\ SetRouterState(res.rs)
           /\ bench' = [bench EXCEPT ![t].pc = "rotated",
                                     ![t].start = RotateCount(CounterRead(t), n)]
           /\ hist' = [hist EXCEPT !.op = "rotate", !.app = app,
                                   !.ok = res.ok, !.chain = res.chain,
                                   !.calls[app] = @ + 1,
                                   !.base[app] = res.chain]
    /\ UNCHANGED <<status, stats, wb, resolverVars, now, store, persisted, req,
                   benchLock>>

NextRR ==
    \/ \E t \in Tasks, app \in Apps : SelectGather(t, app, 1)
    \/ \E t \in Tasks : SelectRotate(t)
    \/ \E p \in ProviderIds : RecordResult(p, TRUE, FALSE, TimeoutError)
    \/ Tick

SpecRR == InitRR /\ [][NextRR]_vars

\* C31: of the select_providers calls of one app, taken in the order in which
\* they hold the counter lock, a call with the same candidates as the call
\* before it starts one key further, modulo the number of candidates.
C31_StartAdvancesByOne ==
    [][\A t \in Tasks :
          (/\ SelectRotate(t)
           /\ hist.calls[bench[t].app] > 0
           /\ SeqToSet(hist.base[bench[t].app]) = bench[t].cands)
              => Head(hist'.chain) = RotateLeft(hist.base[bench[t].app], 1)[1]]_vars

\* a call over three keys has started at another index than the counter it
\* could have seen when it gathered its candidates: another call held the
\* lock in between
C31_Witness ==
    /\ hist.op = "rotate"
    /\ \E t \in Tasks :
          /\ bench[t].pc = "rotated"
          /\ Cardinality(bench[t].cands) = 3
          /\ bench[t].start # bench[t].seen
          /\ Head(hist.chain) = SortById(bench[t].cands)[bench[t].start + 1]

(***************************************************************************)
(* Chains over suppliers with several URLs and with keys that share one    *)
(* key value: a and g hold the same key at the same URL, d holds it at     *)
(* another URL of the supplier.                                            *)
(***************************************************************************)
ChainStores ==
    {StoreConfig({"claude"}, {"claude"}, {"a", "g", "d", "c"}, None, 0),
     StoreConfig({"claude"}, {"claude"}, {"a", "b", "g"}, None, 0)}

InitChain == InitWith(ChainStores)

SpecChain == InitChain /\ [][NextUrl]_vars

BaseUrlOf(p) == extract_base_url(p, Providers[p].app)

KeyValueOf(p) == extract_api_key_value(p, Providers[p].app)

\* C35: in every chain returned with failover enabled the providers of one
\* (tier, supplier) all have the supplier's current URL as their base URL and
\* have pairwise different API-key values.
C35_OneUrlDistinctKeys ==
    (hist.op = "select" /\ hist.ok /\ store.failover[hist.app]) =>
        \A i, j \in DOMAIN hist.chain :
            SupplierKeyOf(hist.chain[i]) = SupplierKeyOf(hist.chain[j]) =>
                /\ BaseUrlOf(hist.chain[i]) =
                       currentUrl[SupplierKeyOf(hist.chain[i])]
                /\ i # j => KeyValueOf(hist.chain[i]) # KeyValueOf(hist.chain[j])

\* a chain over the keys a, b and g of one URL, a and g with the same key
\* value and all breakers available: the chain holds a and b only
C35_Witness ==
    /\ hist.op = "select" /\ hist.ok
    /\ store.queue = {"a", "b", "g"}
    /\ SeqToSet(hist.chain) = {"a", "b"}
    /\ is_available(breaker["g"], now)
    /\ currentUrl[SupplierKeyOf("a")] = BaseUrlOf("a")

\* a chain over the supplier's second URL, the first being suspect
C35_SecondUrlChainReached ==
    /\ hist.op = "select" /\ hist.ok
    /\ hist.chain = <<"d", "c">>

\* the supplier of key k has several URLs and its current URL is one of them
\* and not suspect
CurrentUrlUsable(app, k) ==
    /\ Cardinality(UrlsOfKey(app, k)) > 1
    /\ currentUrl[k] \in UrlsOfKey(app, k)
    /\ suspect[suspect_key(app, k[3], currentUrl[k])] <= now

\* whatever the URLs of the supplier of key k would answer to a probe, a
\* select_providers call in this state runs no probe loop for k, caches no
\* latency for its URLs and leaves its current URL in place
NoProbeOf(app, k) ==
    \A oracle \in OraclesFor(UrlProbeKinds, UrlsOfKey(app, k),
                             MultiUrlsOf(store, app)) :
        LET res == select_providers(RouterState, store, app, now, oracle) IN
        /\ k \notin res.rs.probed
        /\ res.rs.cur[k] = currentUrl[k]
        /\ \A u \in UrlsOfKey(app, k) :
              res.rs.lat[url_latency_key(app, k[2], k[3], u)] =
                  urlLat[url_latency_key(app, k[2], k[3], u)]
        /\ \A i \in DOMAIN res.chain :
              SupplierKeyOf(res.chain[i]) = k =>
                  BaseUrlOf(res.chain[i]) = currentUrl[k]

\* C36: a select_providers call that finds a current URL for a supplier with
\* several URLs, the URL still configured and not suspect, keeps that URL,
\* builds the supplier's part of the chain on it and sends no full-chain or
\* connectivity probe for the supplier.
C36_CurrentUrlKeptWithoutProbe ==
    [][\A app \in Apps :
          FailoverSelectStep(app) =>
              \A k \in QueuedSupplierKeys(app) :
                  CurrentUrlUsable(app, k) =>
                      /\ NoProbeOf(app, k)
                      /\ currentUrl'[k] = currentUrl[k]
                      /\ \A i \in DOMAIN hist'.chain :
                            SupplierKeyOf(hist'.chain[i]) = k =>
                                BaseUrlOf(hist'.chain[i]) = currentUrl[k]]_vars

\* the second call for claude: anyrouter (two URLs) kept the current URL of
\* the first call, which is not suspect, and the chain runs over it
C36_Witness ==
    /\ hist.op = "select" /\ hist.ok /\ hist.calls["claude"] = 2
    /\ hist.ncalls = 0 /\ hist.overrides = 0
    /\ store.queue = {"a", "d", "c"}
    /\ CurrentUrlUsable("claude", SupplierKeyOf("a"))
    /\ BaseUrlOf(hist.chain[1]) = currentUrl[SupplierKeyOf("a")]
    /\ SupplierKeyOf(hist.chain[1]) = SupplierKeyOf("a")

(***************************************************************************)
(* Two Codex requests to one provider in flight at once: call[t] is the    *)
(* resolver call of request t, its pending writeback the alias map built   *)
(* from the env as the call read it.                                       *)
(***************************************************************************)
InitPair ==
    /\ InitProxy({StoreConfig({"codex"}, {"codex"}, {"x"}, "x", 0)})
    /\ san = NoSan
    /\ modelCache = EmptyCache
    /\ call = [t \in Tasks |-> IdleCall]
    /\ \E m \in InitialAliases : env = [NoEnv EXCEPT !.aliases = m]

\* forward() of request t resolves the model against the provider's env
ResolveFor(t, request, reply) ==
    /\ call[t].pc = "idle"
    /\ LET r == resolve_openai_model_in_body(ResolverProvider, env.aliases,
                                             request, modelCache, reply, now)
       IN  /\ call' = [call EXCEPT ![t] = CallRecord(call[t], request, r, now)]
           /\ modelCache' = r.cache
    /\ UNCHANGED <<proxyVars, san, env>>

\* the upstream answered request t with 2xx: the spawned writeback sets the
\* env key to the value the call built
PersistFor(t) ==
    /\ call[t].pc = "resolved" /\ call[t].wb.some
    /\ env' = [aliases |-> call[t].wb.value, writes |-> env.writes + 1,
               read |-> env.read]
    /\ call' = [call EXCEPT ![t].pc = "persisted"]
    /\ UNCHANGED <<proxyVars, san, modelCache>>

NextPair ==
    \/ \E t \in Tasks, request \in RequestModels, reply \in ModelsReplies :
          ResolveFor(t, request, reply)
    \/ \E t \in Tasks : PersistFor(t)

SpecPair == InitPair /\ [][NextPair]_vars

AliasKeyOf(t) == normalize_token(call[t].wb.from_model)

HoldsAliasOf(t) ==
    /\ AliasKeyOf(t) \in DOMAIN env.aliases
    /\ env.aliases[AliasKeyOf(t)] = call[t].wb.to_model

\* C37: when the writebacks of two requests for different models to one
\* Codex provider have both been persisted, the alias map of the provider
\* holds the alias of each of the two requests.
C37_BothAliasesPersisted ==
    \A t1, t2 \in Tasks :
        (/\ call[t1].pc = "persisted" /\ call[t2].pc = "persisted"
         /\ AliasKeyOf(t1) # AliasKeyOf(t2))
            => HoldsAliasOf(t1) /\ HoldsAliasOf(t2)

\* both writebacks are persisted and the map holds the alias of one of the
\* two requests only
C37_AliasLostReached ==
    /\ \A t \in Tasks : call[t].pc = "persisted"
    /\ env.writes = 2
    /\ AliasKeyOf("t1") # AliasKeyOf("t2")
    /\ HoldsAliasOf("t2")
    /\ AliasKeyOf("t1") \notin DOMAIN env.aliases

(***************************************************************************)
(* The order of the tier walk (specification SpecErr).                     *)
(***************************************************************************)
\* the passes a tier is owed before the walk may leave it
OwedPasses == IF store.max_retries >= 1 THEN store.max_retries ELSE 1

\* the providers of the pass in hand that the breakers refused, the provider
\* of this step included
RefusedInPass(r) == req[r].skipped + (IF req[r].pc = "walk" THEN 1 ELSE 0)

\* request r is in its tier walk and this step is done with one provider of
\* it (refused by its breaker, or sent to and failed) and the walk goes on
WalkGoesOn(r) ==
    /\ req[r].pc \in {"walk", "sent"} /\ ~req[r].bypass
    /\ req'[r].pc = "walk"
    /\ req'[r] # req[r]

\* C32: with failover enabled the walk of forward_with_retry moves through a
\* tier provider by provider and pass by pass, and enters the next tier only
\* from the last provider of a pass that was the tier's max(1, max_retries)-th
\* pass or a pass in which the breakers refused every provider of the tier.
C32_NextTierAfterPasses ==
    [][\A r \in Reqs :
          WalkGoesOn(r) =>
              /\ req'[r].ti \in {req[r].ti, req[r].ti + 1}
              /\ req'[r].ti = req[r].ti + 1 =>
                     /\ req[r].pi = Len(Level(req[r]))
                     /\ \/ req[r].round + 1 >= OwedPasses
                        \/ RefusedInPass(r) >= Len(Level(req[r]))
              /\ (req'[r].ti = req[r].ti /\ req'[r].round = req[r].round) =>
                     req'[r].pi = req[r].pi + 1
              /\ (req'[r].ti = req[r].ti /\ req'[r].round # req[r].round) =>
                     /\ req[r].pi = Len(Level(req[r]))
                     /\ req'[r].round = req[r].round + 1
                     /\ req'[r].pi = 1]_vars

\* max_retries = 2: the only provider of tier 1 was sent to twice, in two
\* passes, and the walk is in tier 2
C32_Witness ==
    /\ store.max_retries = 2 /\ store.failover["claude"]
    /\ req["r1"].pc = "walk" /\ req["r1"].ti = 2 /\ req["r1"].round = 0
    /\ hist.op = "complete" /\ ~hist.ok
    /\ stats.total_requests = 2

\* max_retries = 2: the breaker of the only provider of tier 1 refused it in
\* the second pass and the walk is in tier 2 after one send
C32_RefusedPassReached ==
    /\ store.max_retries = 2 /\ store.failover["claude"]
    /\ req["r1"].pc = "walk" /\ req["r1"].ti = 2
    /\ hist.op = "skip"
    /\ stats.total_requests = 1

\* the sends of request q so far: attempted_providers in the tier walk, the
\* iterations of forward_with_provider_retry on the single-provider branch
\* (one forward() for test traffic)
ProviderAttempts(q, st) ==
    IF ~q.bypass THEN q.attempted
    ELSE IF q.test THEN 1
    ELSE st.max_retries - q.tries + 1

\* C33: with failover enabled one forward_with_retry call makes at most
\* max(1, max_retries) x (number of providers in its chain) provider attempts.
C33_AttemptsBounded ==
    \A r \in Reqs :
        (req[r].pc \in {"walk", "sent"} /\ store.failover[req[r].app]) =>
            ProviderAttempts(req[r], store) <= OwedPasses * Len(req[r].chain)

\* failover is enabled, the chain is the one provider c, max_retries = 2 and
\* the third send to c is in flight
C33_ThirdSendReached ==
    /\ store.failover["claude"] /\ store.max_retries = 2
    /\ req["r1"].pc = "sent" /\ req["r1"].chain = <<"c">>
    /\ ~req["r1"].test
    /\ req["r1"].tries = 0

\* the bound on the walk over a chain of two or more providers
WalkAttemptsBounded ==
    \A r \in Reqs :
        (req[r].pc \in {"walk", "sent"} /\ ~req[r].bypass) =>
            req[r].attempted <= OwedPasses * Len(req[r].chain)

\* a forward_with_retry call in hand returns: its walk ends, given that the
\* breakers answer and every send is answered or times out
NextErrFair ==
    /\ WF_vars(ReqStart("r1"))
    /\ WF_vars(ReqDispatch("r1"))
    /\ WF_vars(\E up \in ErrReplies : ReqComplete("r1", up))

SpecErrFair == SpecErr /\ NextErrFair

ForwardReturns == (req["r1"].pc # "idle") ~> (req["r1"].pc = "idle")

====
